---- MODULE Spec2Model ----
(***************************************************************************)
(* Verification model of headless-wheel-builder's security validator,      *)
(* container image resolution and atomic file finalisation.                *)
(*                                                                         *)
(* Text is modelled as sequences of one-character strings, so that         *)
(* str.startswith, str.lower, Path.parts and glob suffix matching are      *)
(* computed, not assumed.  Paths follow the POSIX flavour of pathlib.      *)
(***************************************************************************)
EXTENDS Integers, Sequences, FiniteSets, TLC

VARIABLES
    files,      \* cleanup: the regular files that exist (canonical component paths)
    dirs,       \* cleanup: the directories that exist
    home,       \* cleanup: the current user's home directory (Path.home())
    cl,         \* cleanup: record of the last cleanup call
    wp,         \* wheel path: record of the last validate_wheel_path call
    target,     \* atomic writer: content of the target path, or Absent
    temps,      \* atomic writer: temporary files in the target directory (name -> content)
    aw,         \* atomic writer: per-writer state of the with-block
    heap,       \* images: dictionaries handed out by list_available_images
    MANYLINUX_IMAGES, \* images: the module-level registry dictionary
    req,        \* images: the request at hand (explicit image, platform, architecture)
    noted,      \* images: an earlier call remembered for comparison
    last,       \* images: record of the last image-resolution call
    call,       \* pure functions: the call at hand and its outcome
    dk          \* docker isolation: state of one DockerIsolation instance and its host

cleanVars == <<files, dirs, home, cl>>
wheelVars == <<wp>>
atomVars  == <<target, temps, aw>>
imgVars   == <<heap, MANYLINUX_IMAGES, req, noted, last>>
callVars  == <<call>>
dockerVars == <<dk>>
vars == <<files, dirs, home, cl, wp, target, temps, aw, heap, MANYLINUX_IMAGES, req, noted, last,
         call, dk>>

None == "None"

-----------------------------------------------------------------------------
(* Text helpers                                                            *)

StartsWith(s, p) == Len(p) <= Len(s) /\ SubSeq(s, 1, Len(p)) = p

EndsWith(s, p) == Len(p) <= Len(s) /\ SubSeq(s, Len(s) - Len(p) + 1, Len(s)) = p

\* str.lower() over the letters that occur in the modelled paths
LowerCh(c) ==
    CASE c = "U" -> "u"
      [] c = "H" -> "h"
      [] OTHER -> c

Lower(s) == [i \in 1..Len(s) |-> LowerCh(s[i])]

-----------------------------------------------------------------------------
(* Path names (each component is a sequence of characters)                 *)

DotDot   == <<".", ".">>
n_home   == <<"h", "o", "m", "e">>
n_Home   == <<"H", "o", "m", "e">>
n_homew  == <<"h", "o", "m", "e", "w">>
n_root   == <<"r", "o", "o", "t">>
n_usr    == <<"u", "s", "r">>
n_var    == <<"v", "a", "r">>
n_opt    == <<"o", "p", "t">>
n_tmp    == <<"t", "m", "p">>
n_srv    == <<"s", "r", "v">>
n_u      == <<"u">>
n_t      == <<"t">>
n_dist   == <<"d", "i", "s", "t">>
n_sub    == <<"s", "u", "b">>
n_other  == <<"o", "t", "h", "e", "r">>
n_lnk    == <<"l", "n", "k">>
n_nope   == <<"n", "o", "p", "e">>
f_whl    == <<"a", ".", "w", "h", "l">>
f_targz  == <<"b", ".", "t", "a", "r", ".", "g", "z">>
f_zip    == <<"c", ".", "z", "i", "p">>
f_readme == <<"R", ".", "m", "d">>
f_xwhl   == <<"x", ".", "w", "h", "l">>

\* canonical directories of the modelled host
P_root    == <<>>
P_home    == <<n_home>>
P_homeu   == <<n_home, n_u>>
P_homeud  == <<n_home, n_u, n_dist>>
P_rootd   == <<n_root>>
P_usr     == <<n_usr>>
P_var     == <<n_var>>
P_opt     == <<n_opt>>
P_tmp     == <<n_tmp>>
P_t       == <<n_tmp, n_t>>
P_dist    == <<n_tmp, n_t, n_dist>>
P_sub     == <<n_tmp, n_t, n_dist, n_sub>>
P_other   == <<n_tmp, n_t, n_other>>
P_srv     == <<n_srv>>
P_srvu    == <<n_srv, n_u>>
P_homew   == <<n_homew>>
P_xwhl    == <<n_tmp, n_t, n_dist, f_xwhl>>

BaseDirs ==
    {P_root, P_home, P_homeu, P_homeud, P_rootd, P_usr, P_var, P_opt, P_tmp,
     P_t, P_dist, P_sub, P_other, P_srv, P_srvu, P_homew}

\* a directory whose name matches *.whl may or may not be present
OptionalDirs == {P_xwhl}

\* the files that may be present before an operation
CandidateFiles ==
    {Append(P_dist, f_whl), Append(P_dist, f_targz), Append(P_dist, f_zip),
     Append(P_dist, f_readme), Append(P_sub, f_whl), Append(P_other, f_whl),
     Append(P_homeud, f_whl)}

\* the process's working directory and one symbolic link, /tmp/t/lnk -> /home/u/dist
Cwd == P_t
SymlinkAt == <<n_tmp, n_t, n_lnk>>
SymlinkTo == P_homeud

HomeChoices == {P_rootd, P_homeu, P_srvu}

-----------------------------------------------------------------------------
(* pathlib: Path.resolve(), str(Path), exists(), is_dir(), glob()          *)

\* what a caller may pass as output_dir: an anchor ("rel", "/" or "//") and components
CleanInput(anchor, parts) == [anchor |-> anchor, parts |-> parts]

Parent(p) == IF p = <<>> THEN <<>> ELSE SubSeq(p, 1, Len(p) - 1)

RECURSIVE Walk(_, _)
Walk(cur, rest) ==
    IF rest = <<>> THEN cur
    ELSE LET c == Head(rest)
             nxt == Append(cur, c)
         IN  IF c = DotDot THEN Walk(Parent(cur), Tail(rest))
             ELSE IF nxt = SymlinkAt THEN Walk(SymlinkTo, Tail(rest))
             ELSE Walk(nxt, Tail(rest))

\* Path(output_dir).resolve(): absolute, ".." collapsed, symlinks followed;
\* pathlib keeps a root of exactly two slashes
resolve(inp) ==
    [dbl   |-> inp.anchor = "//",
     parts |-> Walk(IF inp.anchor = "rel" THEN Cwd ELSE <<>>, inp.parts)]

RECURSIVE JoinParts(_)
JoinParts(p) ==
    IF p = <<>> THEN <<>>
    ELSE IF Len(p) = 1 THEN Head(p)
    ELSE Head(p) \o <<"/">> \o JoinParts(Tail(p))

\* str(path) of a resolved path
Str(r) == (IF r.dbl THEN <<"/", "/">> ELSE <<"/">>) \o JoinParts(r.parts)

exists(p) == p \in dirs \/ p \in files

is_dir(p) == p \in dirs

IsChildOf(p, d) == Len(p) = Len(d) + 1 /\ SubSeq(p, 1, Len(d)) = d

\* a glob that descends into subdirectories, as Path.rglob would
rglob(d, suffix) ==
    {p \in files \cup dirs :
        Len(p) > Len(d) /\ SubSeq(p, 1, Len(d)) = d /\ EndsWith(p[Len(p)], suffix)}

\* output_dir.glob("*" + suffix): the entries directly in d whose name ends with suffix
glob(d, suffix) ==
    {p \in files \cup dirs : IsChildOf(p, d) /\ EndsWith(p[Len(p)], suffix)}

-----------------------------------------------------------------------------
(* security_validation.py: validate_cleanup_path, safe_cleanup_wheels      *)

BuildError(msg) == [kind |-> "raise", type |-> "BuildError", msg |-> msg]
Returned(v) == [kind |-> "return", value |-> v]

unix_roots ==
    {<<"/">>, <<"/">> \o n_home, <<"/">> \o n_root, <<"/">> \o n_var,
     <<"/">> \o n_opt, <<"/">> \o n_usr}

win_dangerous ==
    {<<"\\">>,
     <<"c", ":", "\\">>,
     <<"c", ":", "\\", "w", "i", "n", "d", "o", "w", "s">>,
     <<"c", ":", "\\", "p", "r", "o", "g", "r", "a", "m", " ", "f", "i", "l", "e", "s">>}

validate_cleanup_path(inp) ==
    LET output_dir == resolve(inp)
        output_str == Lower(Str(output_dir))
    IN  IF \E dangerous_root \in unix_roots :
               \/ output_str = Lower(dangerous_root)
               \/ StartsWith(output_str, Lower(dangerous_root) \o <<"/">>)
        THEN BuildError("Cannot clean critical system directory")
        ELSE IF \E dangerous_win \in win_dangerous :
               \/ output_str = Lower(dangerous_win)
               \/ StartsWith(output_str, Lower(dangerous_win) \o <<"\\">>)
        THEN BuildError("Cannot clean critical system directory")
        ELSE IF ~exists(output_dir.parts)
        THEN BuildError("Output directory does not exist")
        ELSE IF ~is_dir(output_dir.parts)
        THEN BuildError("Output path is not a directory")
        ELSE Returned(None)

patterns == {<<".", "w", "h", "l">>, <<".", "t", "a", "r", ".", "g", "z">>, <<".", "z", "i", "p">>}

\* the entries the three globs yield in directory d
Matched(d) == UNION {glob(d, suffix) : suffix \in patterns}

\* file_path.unlink() raises OSError for a directory, and for the files in `failing`
\* (for instance a file the process may not remove)
UnlinkFails(p, failing) == p \in dirs \/ p \in failing

\* a cleanup that deletes without asking validate_cleanup_path first
safe_cleanup_wheels_unvalidated(inp, failing) ==
    LET output_dir == resolve(inp).parts
        deleted == {p \in Matched(output_dir) : ~UnlinkFails(p, failing)}
    IN  IF ~exists(output_dir)
        THEN [files |-> files, outcome |-> BuildError("Output directory does not exist")]
        ELSE IF ~is_dir(output_dir)
        THEN [files |-> files, outcome |-> BuildError("Output path is not a directory")]
        ELSE [files |-> files \ deleted, outcome |-> Returned(Cardinality(deleted))]

\* a cleanup that gives up at the first unlink that fails (the failing entry
\* being the first one the glob yields)
safe_cleanup_wheels_abort_on_error(inp, failing) ==
    LET output_dir == resolve(inp).parts
        checked == validate_cleanup_path(inp)
        bad == {p \in Matched(output_dir) : UnlinkFails(p, failing)}
    IN  IF ~exists(output_dir)
        THEN [files |-> files, outcome |-> BuildError("Output directory does not exist")]
        ELSE IF ~is_dir(output_dir)
        THEN [files |-> files, outcome |-> BuildError("Output path is not a directory")]
        ELSE IF checked.kind = "raise"
        THEN [files |-> files, outcome |-> checked]
        ELSE IF bad # {}
        THEN [files |-> files,
              outcome |-> [kind |-> "raise", type |-> "BuildError",
                           msg |-> "Failed to delete some files during cleanup",
                           errors |-> {CHOOSE p \in bad : TRUE}]]
        ELSE [files |-> files \ Matched(output_dir),
              outcome |-> Returned(Cardinality(Matched(output_dir)))]

\* the whole call: [files |-> the files left, outcome |-> what the caller gets]
safe_cleanup_wheels(inp, failing) ==
    LET output_dir == resolve(inp).parts
        checked == validate_cleanup_path(inp)
        deleted == {p \in Matched(output_dir) : ~UnlinkFails(p, failing)}
        errors == Matched(output_dir) \ deleted
    IN  IF ~exists(output_dir)
        THEN [files |-> files, outcome |-> BuildError("Output directory does not exist")]
        ELSE IF ~is_dir(output_dir)
        THEN [files |-> files, outcome |-> BuildError("Output path is not a directory")]
        ELSE IF checked.kind = "raise"
        THEN [files |-> files, outcome |-> checked]
        ELSE IF errors # {}
        THEN [files |-> files \ deleted,
              outcome |-> [kind |-> "raise", type |-> "BuildError",
                           msg |-> "Failed to delete some files during cleanup",
                           errors |-> errors]]
        ELSE [files |-> files \ deleted, outcome |-> Returned(Cardinality(deleted))]

-----------------------------------------------------------------------------
(* BuildEngine.build, step 1 (clean_output): core/builder.py is not part   *)
(* of the sources at hand; this step follows the specification, 4.1 and 4.4 *)

IsPrefix(a, b) == Len(a) <= Len(b) /\ SubSeq(b, 1, Len(a)) = a

SystemDirs == {P_home, P_rootd, P_usr, P_var, P_opt}

is_dangerous_cleanup_path(inp) ==
    LET p == resolve(inp).parts
    IN  \/ p = P_root
        \/ \E r \in SystemDirs \cup {home} : IsPrefix(r, p)

artifact_patterns == {<<".", "w", "h", "l">>, <<".", "t", "a", "r", ".", "g", "z">>}

build_clean_output(inp) ==
    LET output_dir == resolve(inp).parts
        deleted == {p \in UNION {glob(output_dir, s) : s \in artifact_patterns} : p \in files}
    IN  IF is_dangerous_cleanup_path(inp)
        THEN [files |-> files, outcome |-> BuildError("Refusing to clean dangerous directory")]
        ELSE [files |-> files \ deleted, outcome |-> Returned(Cardinality(deleted))]

-----------------------------------------------------------------------------
(* Cleanup: state machine                                                  *)

\* directories given to the cleaning operations
CleanInputs ==
    {CleanInput("/", P_dist), CleanInput("rel", <<n_dist>>), CleanInput("//", P_dist),
     CleanInput("/", P_sub), CleanInput("/", P_other), CleanInput("/", P_root),
     CleanInput("/", P_homeud), CleanInput("rel", <<n_lnk>>),
     CleanInput("rel", <<DotDot, DotDot, n_home, n_u>>), CleanInput("/", P_usr),
     CleanInput("/", <<n_tmp, n_nope>>), CleanInput("/", Append(P_dist, f_readme)),
     CleanInput("/", P_xwhl)}

\* paths given to the dangerous-path predicates
DangerInputs ==
    CleanInputs \cup
    {CleanInput("/", P_t), CleanInput("/", P_home), CleanInput("/", P_homeu),
     CleanInput("/", P_rootd), CleanInput("/", <<n_usr, n_nope>>),
     CleanInput("/", P_var), CleanInput("/", P_opt), CleanInput("/", <<n_Home>>),
     CleanInput("/", P_srvu), CleanInput("/", P_homew), CleanInput("/", P_tmp)}

NoCall == [op |-> "none"]

CleanFrame == UNCHANGED <<wheelVars, atomVars, imgVars, callVars, dockerVars>>

CleanInit ==
    /\ files \in SUBSET CandidateFiles
    /\ dirs \in {BaseDirs \cup o : o \in SUBSET OptionalDirs}
    /\ home = P_homeu
    /\ cl = NoCall

DangerInit ==
    /\ files = CandidateFiles
    /\ dirs \in {BaseDirs \cup o : o \in SUBSET OptionalDirs}
    /\ home \in HomeChoices
    /\ cl = NoCall

\* a caller runs safe_cleanup_wheels(output_dir)
SafeCleanupWheels ==
    \E inp \in CleanInputs :
      \E failing \in SUBSET (Matched(resolve(inp).parts) \cap files) :
        /\ LET r == safe_cleanup_wheels(inp, failing)
           IN  /\ files' = r.files
               /\ cl' = [op |-> "safe_cleanup_wheels", input |-> inp, before |-> files,
                         failing |-> failing, outcome |-> r.outcome]
        /\ UNCHANGED <<dirs, home>>
        /\ CleanFrame

\* a caller runs validate_cleanup_path(output_dir) on its own
ValidateCleanupPath ==
    \E inp \in DangerInputs :
        /\ cl' = [op |-> "validate_cleanup_path", input |-> inp, before |-> files,
                  outcome |-> validate_cleanup_path(inp)]
        /\ UNCHANGED <<files, dirs, home>>
        /\ CleanFrame

\* BuildEngine.build with clean_output set reaches its cleaning step
BuildCleanOutput ==
    \E inp \in CleanInputs :
        /\ LET r == build_clean_output(inp)
           IN  /\ files' = r.files
               /\ cl' = [op |-> "build", input |-> inp, before |-> files,
                         outcome |-> r.outcome]
        /\ UNCHANGED <<dirs, home>>
        /\ CleanFrame

\* the other components at rest
WheelIdle == wp = NoCall
\* a target path at which no file exists
NoFile == <<None>>

\* temp_path before __enter__ (self.temp_path = None)
NoPath == <<>>

AtomIdle == target = NoFile /\ temps = <<>> /\ aw = <<>>
\* image names are sequences of tokens: a key is <<family, architecture>>
Key(family, arch) == <<family, arch>>

Ref(key) == <<"quay.io/", "pypa/">> \o key

RegistryKeys ==
    {Key("manylinux2014_", "x86_64"), Key("manylinux2014_", "i686"),
     Key("manylinux2014_", "aarch64"),
     Key("manylinux_2_28_", "x86_64"), Key("manylinux_2_28_", "aarch64"),
     Key("manylinux_2_34_", "x86_64"), Key("manylinux_2_34_", "aarch64"),
     Key("musllinux_1_1_", "x86_64"), Key("musllinux_1_1_", "aarch64"),
     Key("musllinux_1_2_", "x86_64"), Key("musllinux_1_2_", "aarch64")}

\* the registry as the module defines it
Registry0 == [k \in RegistryKeys |-> Ref(k)]

ImgIdle == heap = <<>> /\ MANYLINUX_IMAGES = Registry0 /\ req = NoCall /\ noted = NoCall /\ last = NoCall

CallIdle == call = NoCall

DockerIdle == dk = NoCall

\* BuildEngine's predicate evaluated on its own (_is_dangerous_cleanup_path)
IsDangerousCleanupPath ==
    \E inp \in DangerInputs :
        /\ cl' = [op |-> "is_dangerous_cleanup_path", input |-> inp, before |-> files,
                  outcome |-> Returned(is_dangerous_cleanup_path(inp))]
        /\ UNCHANGED <<files, dirs, home>>
        /\ CleanFrame

CleanNext == SafeCleanupWheels \/ BuildCleanOutput

DangerNext == ValidateCleanupPath \/ IsDangerousCleanupPath

\* the cleaning operations, over every content of the directories
InitClean == CleanInit /\ WheelIdle /\ AtomIdle /\ ImgIdle /\ CallIdle /\ DockerIdle

SpecClean == InitClean /\ [][CleanNext]_vars

\* the dangerous-path predicates, over every home directory
InitDanger == DangerInit /\ WheelIdle /\ AtomIdle /\ ImgIdle /\ CallIdle /\ DockerIdle

SpecDanger == InitDanger /\ [][DangerNext]_vars

-----------------------------------------------------------------------------
(* Claims about cleanup                                                    *)

Critical == BuildError("Cannot clean critical system directory")

\* the dangerous-path check of the operation recorded in cl rejects its directory
CheckRejects ==
    \/ cl.op = "safe_cleanup_wheels" /\ validate_cleanup_path(cl.input) = Critical
    \/ cl.op = "build" /\ is_dangerous_cleanup_path(cl.input)

\* C1: when cleaning is requested on a directory the dangerous-path check rejects,
\* safe_cleanup_wheels and BuildEngine.build end with a BuildError and no file at
\* all has been removed, whatever the directory holds.
C1_DangerousCleanupDeletesNothing ==
    (cl.op \in {"safe_cleanup_wheels", "build"} /\ CheckRejects) =>
        /\ cl.outcome.kind = "raise"
        /\ cl.outcome.type = "BuildError"
        /\ files = cl.before

\* C1 witness: safe_cleanup_wheels was refused on /home/u/dist (reached through a
\* symbolic link) while an artifact was lying in it
C1_Witness ==
    /\ cl.op = "safe_cleanup_wheels"
    /\ cl.input = CleanInput("rel", <<n_lnk>>)
    /\ CheckRejects
    /\ Append(P_homeud, f_whl) \in cl.before

\* what the claims call the critical directories
ListedRoots == {P_home, P_rootd, P_usr, P_var, P_opt}

\* C2 (as claimed): validate_cleanup_path reports dangerous for every path whose
\* canonical form is / or is equal to or nested under /home, /root, /usr, /var,
\* /opt or the user's home directory, and does not report the fresh temporary
\* subdirectory /tmp/t/dist as dangerous.
C2_DangerousPredicateAsClaimed ==
    cl.op = "validate_cleanup_path" =>
        LET p == resolve(cl.input).parts
        IN  /\ (p = P_root \/ \E r \in ListedRoots \cup {home} : IsPrefix(r, p))
                  => cl.outcome = Critical
            /\ cl.input = CleanInput("/", P_dist) => cl.outcome # Critical

\* names matching *.whl, *.tar.gz or *.zip
IsArtifactName(name) ==
    \/ EndsWith(name, <<".", "w", "h", "l">>)
    \/ EndsWith(name, <<".", "t", "a", "r", ".", "g", "z">>)
    \/ EndsWith(name, <<".", "z", "i", "p">>)

\* the entries directly in d, before the call, whose names match
MatchingEntries(d) ==
    {p \in cl.before \cup dirs : IsChildOf(p, d) /\ IsArtifactName(p[Len(p)])}

\* safe_cleanup_wheels ran on an existing directory that the check accepts
CleanedAcceptedDir ==
    /\ cl.op = "safe_cleanup_wheels"
    /\ resolve(cl.input).parts \in dirs
    /\ validate_cleanup_path(cl.input).kind = "return"

\* C3 (as claimed): on an existing, non-dangerous directory safe_cleanup_wheels
\* deletes exactly the matching entries directly in it, returns their number and
\* leaves every other file unchanged.
C3_CleanupAsClaimed ==
    CleanedAcceptedDir =>
        LET m == MatchingEntries(resolve(cl.input).parts)
        IN  /\ files = cl.before \ m
            /\ m \cap dirs = {}
            /\ cl.outcome = Returned(Cardinality(m))

\* C3 (amended): safe_cleanup_wheels removes only matching entries directly in the
\* directory and nothing else changes; when it returns, every matching entry is
\* gone and the value is their number; otherwise it raises BuildError naming
\* exactly the matching entries that are still there.
C3_CleanupFrame ==
    CleanedAcceptedDir =>
        LET m == MatchingEntries(resolve(cl.input).parts)
            gone == cl.before \ files
        IN  /\ files \subseteq cl.before
            /\ gone \subseteq m
            /\ cl.outcome.kind = "return" =>
                  /\ gone = m
                  /\ cl.outcome.value = Cardinality(m)
            /\ cl.outcome.kind = "raise" =>
                  /\ cl.outcome.type = "BuildError"
                  /\ cl.outcome.errors = m \ gone
                  /\ cl.outcome.errors # {}

\* C3 witness: three artifacts deleted from /tmp/t/dist while R.md, the file in
\* the subdirectory and the file in the sibling directory were present and stay
C3_Witness ==
    /\ CleanedAcceptedDir
    /\ cl.input = CleanInput("/", P_dist)
    /\ cl.outcome = Returned(3)
    /\ {Append(P_dist, f_readme), Append(P_sub, f_whl), Append(P_other, f_whl)} \subseteq files

\* the matching entries whose unlink raised OSError during the last call
Undeletable(d) == {p \in MatchingEntries(d) : p \in dirs \/ p \in cl.failing}

\* C18: when unlinking one or more matching entries fails, safe_cleanup_wheels
\* still unlinks every other matching entry, and then raises one BuildError
\* "Failed to delete some files during cleanup" that lists exactly the entries
\* that could not be deleted.
C18_CleanupAccumulatesFailures ==
    LET d == resolve(cl.input).parts
    IN  (CleanedAcceptedDir /\ Undeletable(d) # {}) =>
            /\ files = cl.before \ (MatchingEntries(d) \ Undeletable(d))
            /\ cl.outcome.kind = "raise"
            /\ cl.outcome.type = "BuildError"
            /\ cl.outcome.msg = "Failed to delete some files during cleanup"
            /\ cl.outcome.errors = Undeletable(d)

\* C18 witness: in /tmp/t/dist two matching files could not be deleted, the
\* third one was deleted all the same, and the error lists the two
C18_Witness ==
    /\ CleanedAcceptedDir
    /\ cl.input = CleanInput("/", P_dist)
    /\ Cardinality(cl.failing) = 2
    /\ Cardinality(cl.before \ files) = 1
    /\ cl.outcome.kind = "raise"
    /\ cl.outcome.errors = cl.failing

-----------------------------------------------------------------------------
(* security_validation.py: validate_wheel_path (POSIX pathlib)             *)

MaxPathLen == 6

PathAlphabet == {"/", ".", "-", "a", "\\"}

\* the strings a wheel entry name may be
PathStrings == UNION {[1..n -> PathAlphabet] : n \in 0..MaxPathLen}

\* s.split(sep), empty pieces kept
RECURSIVE SplitOn(_, _)
SplitOn(s, sep) ==
    IF \A i \in 1..Len(s) : s[i] # sep THEN <<s>>
    ELSE LET k == CHOOSE i \in 1..Len(s) : s[i] = sep /\ \A j \in 1..(i - 1) : s[j] # sep
         IN  <<SubSeq(s, 1, k - 1)>> \o SplitOn(SubSeq(s, k + 1, Len(s)), sep)

\* PurePosixPath(s).is_absolute(): the path has a root
is_absolute(s) == StartsWith(s, <<"/">>)

\* the root part pathlib reports: exactly two leading slashes are kept as "//"
RootPart(s) ==
    IF StartsWith(s, <<"/", "/">>) /\ ~StartsWith(s, <<"/", "/", "/">>) THEN <<<<"/", "/">>>>
    ELSE IF StartsWith(s, <<"/">>) THEN <<<<"/">>>>
    ELSE <<>>

\* Path(s).parts: the root, then the components; empty and "." components are dropped
parts(s) ==
    RootPart(s) \o SelectSeq(SplitOn(s, "/"), LAMBDA c : c # <<>> /\ c # <<".">>)

\* a traversal check that looks at the first part only
validate_wheel_path_leading_only(wheel_path_str) ==
    LET is_unc_path == StartsWith(wheel_path_str, <<"\\", "\\">>)
        ps == parts(wheel_path_str)
    IN  IF /\ is_absolute(wheel_path_str)
           /\ ~is_unc_path
           /\ ~StartsWith(wheel_path_str, <<"/", "/">>)
        THEN BuildError("Absolute paths not allowed in wheel")
        ELSE IF ps # <<>> /\ ps[1] = DotDot
        THEN BuildError("Directory traversal (..) not allowed in wheel path")
        ELSE IF ps # <<>> /\ StartsWith(ps[1], <<"-">>)
        THEN BuildError("Invalid path component in wheel")
        ELSE Returned(None)

\* the first offending part decides which error is raised
validate_wheel_path(wheel_path_str) ==
    LET is_unc_path == StartsWith(wheel_path_str, <<"\\", "\\">>)
        ps == parts(wheel_path_str)
        bad == {i \in 1..Len(ps) : ps[i] = DotDot \/ StartsWith(ps[i], <<"-">>)}
        first == CHOOSE i \in bad : \A j \in bad : i <= j
    IN  IF /\ is_absolute(wheel_path_str)
           /\ ~is_unc_path
           /\ ~StartsWith(wheel_path_str, <<"/", "/">>)
        THEN BuildError("Absolute paths not allowed in wheel")
        ELSE IF bad = {} THEN Returned(None)
        ELSE IF ps[first] = DotDot
        THEN BuildError("Directory traversal (..) not allowed in wheel path")
        ELSE BuildError("Invalid path component in wheel")

WheelFrame == UNCHANGED <<cleanVars, atomVars, imgVars, callVars, dockerVars>>

CleanIdle == files = {} /\ dirs = {} /\ home = <<>> /\ cl = NoCall

\* an entry name is handed to the validator
WheelInit == \E s \in PathStrings : wp = [op |-> "pending", path |-> s]

ValidateWheelPath ==
    /\ wp.op = "pending"
    /\ wp' = [op |-> "validate_wheel_path", path |-> wp.path,
              outcome |-> validate_wheel_path(wp.path)]
    /\ WheelFrame

WheelNext == ValidateWheelPath

InitWheel == WheelInit /\ CleanIdle /\ AtomIdle /\ ImgIdle /\ CallIdle /\ DockerIdle

SpecWheel == InitWheel /\ [][WheelNext]_vars

-----------------------------------------------------------------------------
(* Claims about wheel entry paths                                          *)

\* the pieces between slashes, as the claim speaks of components
Components(s) == SplitOn(s, "/")

HasDotDotComponent(s) == \E i \in 1..Len(Components(s)) : Components(s)[i] = <<".", ".">>

HasHyphenComponent(s) ==
    \E i \in 1..Len(Components(s)) :
        Components(s)[i] # <<>> /\ Components(s)[i][1] = "-"

\* the forms the validator lets pass as network shares: //host/... and \\host\...
NetworkShareForm(s) ==
    \/ (Len(s) >= 2 /\ s[1] = "/" /\ s[2] = "/")
    \/ (Len(s) >= 2 /\ s[1] = "\\" /\ s[2] = "\\")

IsAbsolutePosix(s) == Len(s) >= 1 /\ s[1] = "/"

\* C4: validate_wheel_path raises BuildError for every absolute path that is not a
\* network-share form, for every path with a ".." component and for every path
\* with a component starting with "-"; it accepts every relative path with none
\* of these.
C4_WheelPathValidation ==
    wp.op = "validate_wheel_path" =>
        LET s == wp.path
            raised == wp.outcome.kind = "raise" /\ wp.outcome.type = "BuildError"
        IN  /\ (IsAbsolutePosix(s) /\ ~NetworkShareForm(s)) => raised
            /\ HasDotDotComponent(s) => raised
            /\ HasHyphenComponent(s) => raised
            /\ (~IsAbsolutePosix(s) /\ ~HasDotDotComponent(s) /\ ~HasHyphenComponent(s))
                  => wp.outcome = Returned(None)

\* C4 witness: "a/../a", with ".." in the middle, was rejected as a traversal
C4_Witness ==
    /\ wp.op = "validate_wheel_path"
    /\ wp.path = <<"a", "/", ".", ".", "/", "a">>
    /\ wp.outcome = BuildError("Directory traversal (..) not allowed in wheel path")

-----------------------------------------------------------------------------
(* security_validation.py: AtomicFileWriter                                *)

\* the number of pieces the with-body writes for a complete file
ChunkCount == 2

\* names tempfile.NamedTemporaryFile(prefix=".tmp_") may pick
TempNames == {".tmp_a", ".tmp_b", ".tmp_c"}

TargetDir == "target_dir"

\* what the target holds before any writer runs
Old == <<"old">>

Complete(w) == [i \in 1..ChunkCount |-> w]

NewWriter ==
    [pc |-> "new", temp_path |-> NoPath, exc |-> None, outcome |-> NoCall, before |-> NoFile]

\* a temporary file an earlier, killed process may have left in the directory
Stray == [t \in {<<TargetDir, ".tmp_a">>} |-> <<"stray">>]

AtomInit(writers) ==
    /\ target \in {NoFile, Old}
    /\ temps \in {<<>>, Stray}
    /\ aw = [w \in writers |-> NewWriter]

AtomFrame == UNCHANGED <<cleanVars, wheelVars, imgVars, callVars, dockerVars>>

\* an __enter__ that opens one fixed temporary name, in use or not
Enter_fixed_name(w) ==
    /\ aw[w].pc = "new"
    /\ temps' = [t \in DOMAIN temps \cup {<<TargetDir, ".tmp_b">>} |->
                    IF t = <<TargetDir, ".tmp_b">> THEN <<>> ELSE temps[t]]
    /\ aw' = [aw EXCEPT ![w] = [@ EXCEPT !.pc = "body",
                                         !.temp_path = <<TargetDir, ".tmp_b">>,
                                         !.before = target]]
    /\ UNCHANGED target
    /\ AtomFrame

\* __enter__: NamedTemporaryFile(dir=target_dir, delete=False, prefix=".tmp_") creates
\* a file under a name not in use, or fails with OSError before anything is created
Enter(w) ==
    /\ aw[w].pc = "new"
    /\ \/ \E n \in TempNames :
            /\ <<TargetDir, n>> \notin DOMAIN temps
            /\ temps' = [t \in DOMAIN temps \cup {<<TargetDir, n>>} |->
                            IF t = <<TargetDir, n>> THEN <<>> ELSE temps[t]]
            /\ aw' = [aw EXCEPT ![w] = [@ EXCEPT !.pc = "body",
                                                 !.temp_path = <<TargetDir, n>>,
                                                 !.before = target]]
       \/ /\ aw' = [aw EXCEPT ![w] = [@ EXCEPT !.pc = "done", !.before = target,
                                                 !.outcome = [kind |-> "raise", type |-> "OSError"]]]
          /\ UNCHANGED temps
    /\ UNCHANGED target
    /\ AtomFrame

\* the with-body writes the next piece to temp_path
BodyWrite(w) ==
    /\ aw[w].pc = "body"
    /\ aw[w].temp_path \in DOMAIN temps
    /\ Len(temps[aw[w].temp_path]) < ChunkCount
    /\ temps' = [temps EXCEPT ![aw[w].temp_path] = Append(@, w)]
    /\ UNCHANGED <<target, aw>>
    /\ AtomFrame

\* the with-body raises, at any point of its writing
BodyRaise(w) ==
    /\ aw[w].pc = "body"
    /\ aw' = [aw EXCEPT ![w] = [@ EXCEPT !.pc = "exit", !.exc = "ValueError"]]
    /\ UNCHANGED <<target, temps>>
    /\ AtomFrame

\* the with-body ends normally, having written everything
BodyComplete(w) ==
    /\ aw[w].pc = "body"
    /\ aw[w].temp_path \in DOMAIN temps
    /\ Len(temps[aw[w].temp_path]) = ChunkCount
    /\ aw' = [aw EXCEPT ![w] = [@ EXCEPT !.pc = "exit"]]
    /\ UNCHANGED <<target, temps>>
    /\ AtomFrame

Without(t) == [x \in DOMAIN temps \ {t} |-> temps[x]]

\* __exit__: on an exception unlink the temporary file (an OSError of unlink is
\* suppressed) and let the exception through; otherwise replace() the target with
\* it, and if replace fails unlink it (suppressed again) and raise BuildError
Exit(w) ==
    /\ aw[w].pc = "exit"
    /\ \E replace_ok \in BOOLEAN, unlink_ok \in BOOLEAN :
        LET t == aw[w].temp_path
            there == t \in DOMAIN temps
        IN  IF aw[w].exc # None
            THEN /\ temps' = IF there /\ unlink_ok THEN Without(t) ELSE temps
                 /\ target' = target
                 /\ aw' = [aw EXCEPT ![w] = [@ EXCEPT !.pc = "done",
                              !.outcome = [kind |-> "raise", type |-> aw[w].exc]]]
            ELSE IF there /\ replace_ok
            THEN /\ target' = temps[t]
                 /\ temps' = Without(t)
                 /\ aw' = [aw EXCEPT ![w] = [@ EXCEPT !.pc = "done",
                              !.outcome = [kind |-> "return"]]]
            ELSE IF there
            THEN /\ temps' = IF unlink_ok THEN Without(t) ELSE temps
                 /\ target' = target
                 /\ aw' = [aw EXCEPT ![w] = [@ EXCEPT !.pc = "done",
                              !.outcome = [kind |-> "raise", type |-> "BuildError"]]]
            ELSE /\ UNCHANGED <<target, temps>>
                 /\ aw' = [aw EXCEPT ![w] = [@ EXCEPT !.pc = "done",
                              !.outcome = [kind |-> "return"]]]
    /\ AtomFrame

AtomNext ==
    \/ \E w \in DOMAIN aw : Enter(w)
    \/ \E w \in DOMAIN aw : BodyWrite(w)
    \/ \E w \in DOMAIN aw : BodyRaise(w)
    \/ \E w \in DOMAIN aw : BodyComplete(w)
    \/ \E w \in DOMAIN aw : Exit(w)

\* one with-block on a target that exists or not
InitAtomic1 == AtomInit({1}) /\ CleanIdle /\ WheelIdle /\ ImgIdle /\ CallIdle /\ DockerIdle

SpecAtomic1 == InitAtomic1 /\ [][AtomNext]_vars

-----------------------------------------------------------------------------
(* Claims about AtomicFileWriter                                           *)

\* C5 (as claimed): the temporary file is created in the target's directory; the
\* target changes only by receiving the complete content of a body that ended
\* without raising; if the body raised, the target is as before the block and the
\* body's exception comes out; and once the block is left, on whichever path, the
\* writer's temporary file is gone.
C5_AllOrNothingAsClaimed ==
    \A w \in DOMAIN aw :
        /\ aw[w].temp_path # NoPath => aw[w].temp_path[1] = TargetDir
        /\ (aw[w].pc # "new" /\ target # aw[w].before) =>
              /\ aw[w].pc = "done"
              /\ aw[w].exc = None
              /\ aw[w].outcome = [kind |-> "return"]
              /\ target = Complete(w)
        /\ (aw[w].pc = "done" /\ aw[w].exc # None) =>
              /\ target = aw[w].before
              /\ aw[w].outcome = [kind |-> "raise", type |-> aw[w].exc]
        /\ aw[w].pc = "done" => aw[w].temp_path \notin DOMAIN temps

-----------------------------------------------------------------------------
(* isolation/docker_images.py and security_validation.py: image resolution *)
(* Image names are sequences of tokens: a key is <<family, architecture>>,  *)
(* a reference is <<"quay.io/", "pypa/">> followed by the key.              *)

\* how many dictionaries list_available_images hands out in one run
MaxCopies == 1

DEFAULT_IMAGES ==
    [p \in {"manylinux", "musllinux"} |->
        IF p = "manylinux" THEN Key("manylinux_2_28_", "x86_64")
        ELSE Key("musllinux_1_2_", "x86_64")]

\* an argument vector: every argument is a string, i.e. a sequence of tokens
Words(ws) == [i \in 1..Len(ws) |-> <<ws[i]>>]

IsolationError(msg, keys) ==
    [kind |-> "raise", type |-> "IsolationError", msg |-> msg, keys |-> keys]

Values(d) == {d[k] : k \in DOMAIN d}

\* str.replace(old, new) on a token sequence
Replace(str, old, new) == [i \in 1..Len(str) |-> IF str[i] = old THEN new ELSE str[i]]

\* Python's None where an image name is expected
NoImage == <<None>>

\* Python truthiness of an optional string
Truthy(x) == x # NoImage /\ x # <<>>

\* a resolution that hands a full reference back without looking it up
ensure_deterministic_image_unverified(image, available_images) ==
    IF StartsWith(image, <<"quay.io/">>) \/ StartsWith(image, <<"docker.io/">>)
    THEN Returned(image)
    ELSE IF image \notin DOMAIN available_images
    THEN IsolationError("Unknown image key", DOMAIN available_images)
    ELSE Returned(available_images[image])

ensure_deterministic_image(image, available_images) ==
    IF StartsWith(image, <<"quay.io/">>) \/ StartsWith(image, <<"docker.io/">>)
    THEN IF image \notin Values(available_images)
         THEN IsolationError("Unknown or unsupported image", DOMAIN available_images)
         ELSE Returned(image)
    ELSE IF image \notin DOMAIN available_images
    THEN IsolationError("Unknown image key", DOMAIN available_images)
    ELSE Returned(available_images[image])

\* ensure_image_available: docker image inspect, then docker pull if the image is
\* absent; the two exit codes are the environment's
ensure_image_available(image, inspect_ok, pull_ok) ==
    IF inspect_ok
    THEN [launched |-> <<Words(<<"docker", "image", "inspect">>) \o <<image>>>>,
          outcome |-> Returned(None)]
    ELSE [launched |-> <<Words(<<"docker", "image", "inspect">>) \o <<image>>,
                         Words(<<"docker", "pull">>) \o <<image>>>>,
          outcome |-> IF pull_ok THEN Returned(None)
                      ELSE IsolationError("Failed to pull Docker image", {})]

\* [outcome |-> what the caller gets, launched |-> the subprocesses started]
select_image(explicit_image, platform, architecture, inspect_ok, pull_ok) ==
    IF Truthy(explicit_image)
    THEN [outcome |-> ensure_deterministic_image(explicit_image, MANYLINUX_IMAGES),
          launched |-> <<>>]
    ELSE LET platform1 == IF platform = "auto" THEN "manylinux" ELSE platform
             default_key == IF platform1 \in DOMAIN DEFAULT_IMAGES
                            THEN DEFAULT_IMAGES[platform1]
                            ELSE Key("manylinux_2_28_", "x86_64")
             platform_key == IF architecture # "x86_64"
                             THEN Replace(default_key, "x86_64", architecture)
                             ELSE default_key
             image == IF platform_key \in DOMAIN MANYLINUX_IMAGES
                      THEN MANYLINUX_IMAGES[platform_key] ELSE NoImage
             ensured == ensure_image_available(image, inspect_ok, pull_ok)
         IN  IF ~Truthy(image)
             THEN [outcome |-> IsolationError("Unknown platform", DOMAIN MANYLINUX_IMAGES),
                   launched |-> <<>>]
             ELSE IF ensured.outcome.kind = "raise"
             THEN [outcome |-> ensured.outcome, launched |-> ensured.launched]
             ELSE [outcome |-> ensure_deterministic_image(image, MANYLINUX_IMAGES),
                   launched |-> ensured.launched]

\* DockerIsolation._select_image: the configuration's image, platform and architecture
docker_select_image(config, inspect_ok, pull_ok) ==
    select_image(config.image, config.platform, config.architecture, inspect_ok, pull_ok)

\* list_available_images: MANYLINUX_IMAGES.copy(), a new dictionary object (fresh),
\* not the registry object itself
list_available_images == [fresh |-> TRUE, dict |-> MANYLINUX_IMAGES]

-----------------------------------------------------------------------------
(* Image resolution: state machine                                         *)

CustomImage == <<"my/custom:image">>
UnknownRef == <<"quay.io/", "unknown/", "unknown_image">>
DockerHubRef == <<"docker.io/", "library/", "python">>
EvilRef == <<"quay.io/", "evil/", "image">>

ExplicitImages ==
    {NoImage, <<>>, Key("manylinux_2_28_", "x86_64"), Ref(Key("manylinux_2_34_", "aarch64")),
     CustomImage, UnknownRef, DockerHubRef}

Platforms == {"auto", "manylinux", "musllinux"}

Architectures == {"x86_64", "aarch64", "i686", "s390x"}

\* DockerConfig(image, platform, architecture)
Requests == [image : ExplicitImages, platform : Platforms, architecture : Architectures]

\* keys a caller changes in a dictionary it was handed
MutableKeys == {Key("manylinux_2_28_", "x86_64")}

ImgInit ==
    /\ MANYLINUX_IMAGES = Registry0
    /\ heap = <<>>
    /\ req \in Requests
    /\ noted = NoCall
    /\ last = NoCall

ImgFrame == UNCHANGED <<cleanVars, wheelVars, atomVars, callVars, dockerVars>>

\* the dictionary the caller sees through the i-th handed-out object
Seen(i) == IF heap[i].fresh THEN heap[i].dict ELSE MANYLINUX_IMAGES

\* DockerIsolation._select_image() -> select_image(...), under whatever Docker answers
SelectImage ==
    \E inspect_ok \in BOOLEAN, pull_ok \in BOOLEAN :
        LET r == docker_select_image(req, inspect_ok, pull_ok)
            rec == [op |-> "select_image", args |-> req, outcome |-> r.outcome,
                    launched |-> r.launched]
        IN  /\ last' = rec
            /\ noted' \in {noted, rec}
            /\ UNCHANGED <<heap, MANYLINUX_IMAGES, req>>
            /\ ImgFrame

\* ensure_deterministic_image(image, d) where d is the registry or a handed-out dictionary
EnsureDeterministicImage ==
    /\ Truthy(req.image)
    /\ \E d \in {MANYLINUX_IMAGES} \cup {Seen(i) : i \in 1..Len(heap)} :
        LET rec == [op |-> "ensure_deterministic_image",
                    args |-> [image |-> req.image, available_images |-> d],
                    outcome |-> ensure_deterministic_image(req.image, d),
                    launched |-> <<>>]
        IN  /\ last' = rec
            /\ noted' \in {noted, rec}
    /\ UNCHANGED <<heap, MANYLINUX_IMAGES, req>>
    /\ ImgFrame

\* a caller asks for the list of images
ListAvailableImages ==
    /\ Len(heap) < MaxCopies
    /\ heap' = Append(heap, list_available_images)
    /\ UNCHANGED <<MANYLINUX_IMAGES, req, noted, last>>
    /\ ImgFrame

DictSet(d, k, v) == [x \in DOMAIN d \cup {k} |-> IF x = k THEN v ELSE d[x]]
DictDel(d, k) == [x \in DOMAIN d \ {k} |-> d[x]]

\* the caller changes the dictionary it was handed: d[k] = ..., or del d[k]
MutateReturned ==
    \E i \in 1..Len(heap), k \in MutableKeys, del \in BOOLEAN :
        LET d == Seen(i)
            d1 == IF del THEN DictDel(d, k) ELSE DictSet(d, k, EvilRef)
        IN  /\ d1 # d
            /\ IF heap[i].fresh
               THEN /\ heap' = [heap EXCEPT ![i].dict = d1]
                    /\ UNCHANGED MANYLINUX_IMAGES
               ELSE /\ MANYLINUX_IMAGES' = d1
                    /\ UNCHANGED heap
            /\ UNCHANGED <<req, noted, last>>
            /\ ImgFrame

ImgNext == SelectImage \/ EnsureDeterministicImage \/ ListAvailableImages \/ MutateReturned

InitImage == ImgInit /\ CleanIdle /\ WheelIdle /\ AtomIdle /\ CallIdle /\ DockerIdle

SpecImage == InitImage /\ [][ImgNext]_vars

-----------------------------------------------------------------------------
(* Image resolution: claims                                                *)

\* C6: image resolution is deterministic: for one and the same input two calls of
\* select_image, or of ensure_deterministic_image, end the same way with the same
\* string, whatever list_available_images calls and changes to the dictionaries
\* it returned happen in between; and the registry is never modified.
C6_ResolutionDeterministicAsClaimed ==
    /\ MANYLINUX_IMAGES = Registry0
    /\ (noted.op # "none" /\ last.op = noted.op /\ last.args = noted.args)
          => last.outcome = noted.outcome

\* C7: select_image only computes a name: it launches no docker subprocess, and
\* select_image(None, "manylinux", "aarch64") returns a reference naming
\* manylinux_2_28_aarch64 whether or not the image is present or can be pulled.
C7_SelectImageLaunchesNothingAsClaimed ==
    last.op = "select_image" =>
        /\ last.launched = <<>>
        /\ (last.args = [image |-> NoImage, platform |-> "manylinux", architecture |-> "aarch64"])
              => last.outcome = Returned(<<"quay.io/", "pypa/", "manylinux_2_28_", "aarch64">>)

IsFullReference(image) == Len(image) > 0 /\ image[1] \in {"quay.io/", "docker.io/"}

\* what the explicit-override rule promises for image under the registry reg
OverrideOutcomeOk(image, reg, outcome) ==
    LET known == IF IsFullReference(image)
                 THEN \E k \in DOMAIN reg : reg[k] = image
                 ELSE image \in DOMAIN reg
    IN  IF known
        THEN /\ outcome.kind = "return"
             /\ outcome.value = (IF IsFullReference(image) THEN image ELSE reg[image])
        ELSE /\ outcome.kind = "raise"
             /\ outcome.type = "IsolationError"
             /\ outcome.keys = DOMAIN reg

C9_ExplicitReturnedVerbatimAsClaimed ==
    (last.op = "select_image" /\ Truthy(last.args.image))
        => last.outcome = Returned(last.args.image)

\* the key the no-override rule forms for a platform and an architecture
DefaultKeyFor(platform, architecture) ==
    <<IF platform = "musllinux" THEN "musllinux_1_2_" ELSE "manylinux_2_28_", architecture>>

\* C10: without an explicit image, select_image maps "auto" to the manylinux
\* default, puts the architecture in place of x86_64 in the platform's default
\* key and returns the registry's reference for that key; if the key is not in
\* the registry it raises IsolationError "Unknown platform" listing the
\* available keys before any inspect or pull is attempted.
C10_DefaultResolutionAsClaimed ==
    (last.op = "select_image" /\ last.args.image = NoImage) =>
        LET key == DefaultKeyFor(last.args.platform, last.args.architecture)
        IN  IF key \in RegistryKeys
            THEN last.outcome = Returned(Registry0[key])
            ELSE /\ last.outcome = IsolationError("Unknown platform", RegistryKeys)
                 /\ last.launched = <<>>

\* the architectures the --arch option accepts
CliArchitectures == {"x86_64", "aarch64", "i686"}

\* C11 (as claimed): for every platform in {auto, manylinux, musllinux} and every
\* architecture the command line accepts, the key select_image forms is in the
\* registry and the call yields a registry reference, not an error.  Calls that
\* ended in a failed pull are left aside here: the statement fails without them.
C11_ResolutionTotalAsClaimed ==
    (/\ last.op = "select_image"
     /\ last.args.image = NoImage
     /\ last.args.architecture \in CliArchitectures
     /\ ~(last.outcome.kind = "raise" /\ last.outcome.msg = "Failed to pull Docker image")) =>
        /\ DefaultKeyFor(last.args.platform, last.args.architecture) \in RegistryKeys
        /\ last.outcome.kind = "return"
        /\ last.outcome.value \in Values(Registry0)

-----------------------------------------------------------------------------
(* docker_images.get_container_python, security_validation.validate_python_version *)
(* Version strings are sequences of characters.                               *)

\* longest version string examined
MaxVersionLen == 6

VersionAlphabet == {"3", "2", "1", "0", "9", ".", " "}

VersionStrings == UNION {[1..n -> VersionAlphabet] : n \in 0..MaxVersionLen}

V(major, minor) == <<major, ".">> \o minor

SUPPORTED_PYTHON_VERSIONS ==
    {V("3", <<"9">>), V("3", <<"1", "0">>), V("3", <<"1", "1">>), V("3", <<"1", "2">>),
     V("3", <<"1", "3">>)}

\* "3.10" |-> "/opt/python/cp310-cp310/bin/python"
MANYLINUX_PYTHON_PATHS ==
    [v \in SUPPORTED_PYTHON_VERSIONS |->
        LET tag == <<"c", "p", v[1]>> \o SubSeq(v, 3, Len(v))
        IN  <<"/opt/python/">> \o tag \o <<"-">> \o tag \o <<"/bin/python">>]

\* str.strip(): leading and trailing blanks removed
RECURSIVE Strip(_)
Strip(s) ==
    IF s = <<>> THEN s
    ELSE IF Head(s) = " " THEN Strip(Tail(s))
    ELSE IF s[Len(s)] = " " THEN Strip(SubSeq(s, 1, Len(s) - 1))
    ELSE s

\* f"{parts[0]}.{parts[1]}" if len(parts) >= 2 else version
ShortVersion(version) ==
    LET ps == SplitOn(version, ".")
    IN  IF Len(ps) >= 2 THEN ps[1] \o <<".">> \o ps[2] ELSE version

validate_python_version(version) ==
    IF version = <<>> \/ Strip(version) = <<>>
    THEN IsolationError("Python version cannot be empty", SUPPORTED_PYTHON_VERSIONS)
    ELSE IF ShortVersion(version) \notin SUPPORTED_PYTHON_VERSIONS
    THEN IsolationError("Unsupported Python version", SUPPORTED_PYTHON_VERSIONS)
    ELSE Returned(None)

\* a lookup that knows exact table entries only
get_container_python_exact(version) ==
    LET checked == validate_python_version(version)
    IN  IF checked.kind = "raise" THEN checked
        ELSE IF version \in DOMAIN MANYLINUX_PYTHON_PATHS
        THEN Returned(MANYLINUX_PYTHON_PATHS[version])
        ELSE IsolationError("Unsupported Python version", DOMAIN MANYLINUX_PYTHON_PATHS)

get_container_python(version) ==
    LET checked == validate_python_version(version)
        ps == SplitOn(version, ".")
        short_version == ps[1] \o <<".">> \o ps[2]
    IN  IF checked.kind = "raise" THEN checked
        ELSE IF version \in DOMAIN MANYLINUX_PYTHON_PATHS
        THEN Returned(MANYLINUX_PYTHON_PATHS[version])
        ELSE IF Len(ps) >= 2 /\ short_version \in DOMAIN MANYLINUX_PYTHON_PATHS
        THEN Returned(MANYLINUX_PYTHON_PATHS[short_version])
        ELSE IsolationError("Unsupported Python version", DOMAIN MANYLINUX_PYTHON_PATHS)

PyFrame == UNCHANGED <<cleanVars, wheelVars, atomVars, imgVars, dockerVars>>

PyInit == \E v \in VersionStrings : call = [op |-> "pending", version |-> v]

ValidatePythonVersion ==
    /\ call.op = "pending"
    /\ call' = [op |-> "validate_python_version", version |-> call.version,
                outcome |-> validate_python_version(call.version)]
    /\ PyFrame

GetContainerPython ==
    /\ call.op = "pending"
    /\ call' = [op |-> "get_container_python", version |-> call.version,
                outcome |-> get_container_python(call.version)]
    /\ PyFrame

PyNext == ValidatePythonVersion \/ GetContainerPython

InitPython == PyInit /\ CleanIdle /\ WheelIdle /\ AtomIdle /\ ImgIdle /\ DockerIdle

SpecPython == InitPython /\ [][PyNext]_vars

\* positions of the dots of a version string
DotsOf(v) == {i \in 1..Len(v) : v[i] = "."}

\* the part of v before its second dot (all of v if it has fewer than two dots)
MajorMinorOf(v) ==
    IF Cardinality(DotsOf(v)) < 2 THEN v
    ELSE LET second == CHOOSE i \in DotsOf(v) : Cardinality({j \in DotsOf(v) : j < i}) = 1
         IN  SubSeq(v, 1, second - 1)

SupportedAsClaimed ==
    {<<"3", ".", "9">>, <<"3", ".", "1", "0">>, <<"3", ".", "1", "1">>,
     <<"3", ".", "1", "2">>, <<"3", ".", "1", "3">>}

\* C12: get_container_python(v) returns the table's path for the major.minor
\* prefix of v exactly when that prefix is one of 3.9, 3.10, 3.11, 3.12, 3.13,
\* with or without further dot-separated components; for every other v, the
\* empty and the blank string included, it raises IsolationError listing the
\* supported versions.
C12_ContainerPythonLookup ==
    call.op = "get_container_python" =>
        IF MajorMinorOf(call.version) \in SupportedAsClaimed
        THEN call.outcome = Returned(MANYLINUX_PYTHON_PATHS[MajorMinorOf(call.version)])
        ELSE /\ call.outcome.kind = "raise"
             /\ call.outcome.type = "IsolationError"
             /\ call.outcome.keys = SupportedAsClaimed

\* C12 witness: "3.10.1" resolved to the cp310 interpreter
C12_Witness ==
    /\ call.op = "get_container_python"
    /\ call.version = <<"3", ".", "1", "0", ".", "1">>
    /\ call.outcome = Returned(<<"/opt/python/", "c", "p", "3", "1", "0", "-",
                                 "c", "p", "3", "1", "0", "/bin/python">>)

-----------------------------------------------------------------------------
(* isolation/docker_config.py and isolation/docker_commands.py               *)

\* extra_env entries a caller passes at most
MaxExtraEnv == 2

\* None for an optional limit
NoLimit == <<None>>

\* the dataclass defaults of DockerConfig
DockerDefaults ==
    [platform |-> "auto", image |-> NoImage, architecture |-> "x86_64",
     network |-> TRUE, memory_limit |-> NoLimit, cpu_limit |-> NoLimit,
     repair_wheel |-> TRUE, strip_binaries |-> TRUE,
     extra_mounts |-> <<>>, extra_env |-> <<>>]

\* DockerConfig(**kwargs): the keyword arguments in given take their value from
\* values, every other field its default
DockerConfig(given, values) ==
    [f \in DOMAIN DockerDefaults |-> IF f \in given THEN values[f] ELSE DockerDefaults[f]]

\* dict.update for one key on a dictionary kept as a sequence of <<key, value>>
\* in insertion order
DictPut(d, k, v) ==
    IF \E i \in 1..Len(d) : d[i][1] = k
    THEN [i \in 1..Len(d) |-> IF d[i][1] = k THEN <<k, v>> ELSE d[i]]
    ELSE Append(d, <<k, v>>)

RECURSIVE DictUpdate(_, _)
DictUpdate(d, items) ==
    IF items = <<>> THEN d
    ELSE DictUpdate(DictPut(d, Head(items)[1], Head(items)[2]), Tail(items))

build_env_vars(config) ==
    LET env == <<<<<<"DEBIAN_FRONTEND">>, <<"noninteractive">>>>,
                 <<<<"PIP_NO_CACHE_DIR">>, <<"1">>>>,
                 <<<<"PIP_DISABLE_PIP_VERSION_CHECK">>, <<"1">>>>,
                 <<<<"PYTHONDONTWRITEBYTECODE">>, <<"1">>>>>>
    IN  IF config.extra_env # <<>> THEN DictUpdate(env, config.extra_env) ELSE env

\* for host_path, container_path in config.extra_mounts.items(): -v host:container
RECURSIVE MountArgs(_)
MountArgs(mounts) ==
    IF mounts = <<>> THEN <<>>
    ELSE <<<<"-v">>, Head(mounts)[1] \o <<":">> \o Head(mounts)[2]>> \o MountArgs(Tail(mounts))

\* environment arguments with every variable passed on, internal or not
RECURSIVE EnvArgsUnfiltered(_)
EnvArgsUnfiltered(env) ==
    IF env = <<>> THEN <<>>
    ELSE <<<<"-e">>, Head(env)[1] \o <<"=">> \o Head(env)[2]>> \o EnvArgsUnfiltered(Tail(env))

\* for key, value in env_vars.items(): if not key.startswith("__HWB_"): -e key=value
RECURSIVE EnvArgs(_)
EnvArgs(env) ==
    IF env = <<>> THEN <<>>
    ELSE (IF ~StartsWith(Head(env)[1], <<"__HWB_">>)
          THEN <<<<"-e">>, Head(env)[1] \o <<"=">> \o Head(env)[2]>>
          ELSE <<>>) \o EnvArgs(Tail(env))

\* truthiness of config.cpu_limit: None and 0.0 are false
LimitSet(x) == x # NoLimit /\ x # <<"0.0">>

\* a command that isolates the container from the network whatever the configuration
build_docker_command_isolated(config, image, source_dir, output_dir) ==
    Words(<<"docker", "run", "--rm">>)
      \o (IF Truthy(config.memory_limit) THEN <<<<"--memory">>, config.memory_limit>> ELSE <<>>)
      \o (IF LimitSet(config.cpu_limit) THEN <<<<"--cpus">>, config.cpu_limit>> ELSE <<>>)
      \o <<<<"--network=none">>>>
      \o <<<<"-v">>, source_dir \o <<":/src:ro">>>>
      \o <<<<"-v">>, output_dir \o <<":/output:rw">>>>
      \o MountArgs(config.extra_mounts)
      \o EnvArgs(build_env_vars(config))
      \o <<<<"-w">>, <<"/src">>>>
      \o <<image>>

\* a command that passes every environment variable on
build_docker_command_unfiltered(config, image, source_dir, output_dir) ==
    Words(<<"docker", "run", "--rm">>)
      \o (IF Truthy(config.memory_limit) THEN <<<<"--memory">>, config.memory_limit>> ELSE <<>>)
      \o (IF LimitSet(config.cpu_limit) THEN <<<<"--cpus">>, config.cpu_limit>> ELSE <<>>)
      \o (IF ~config.network THEN <<<<"--network=none">>>> ELSE <<>>)
      \o <<<<"-v">>, source_dir \o <<":/src:ro">>>>
      \o <<<<"-v">>, output_dir \o <<":/output:rw">>>>
      \o MountArgs(config.extra_mounts)
      \o EnvArgsUnfiltered(build_env_vars(config))
      \o <<<<"-w">>, <<"/src">>>>
      \o <<image>>

build_docker_command(config, image, source_dir, output_dir) ==
    Words(<<"docker", "run", "--rm">>)
      \o (IF Truthy(config.memory_limit) THEN <<<<"--memory">>, config.memory_limit>> ELSE <<>>)
      \o (IF LimitSet(config.cpu_limit) THEN <<<<"--cpus">>, config.cpu_limit>> ELSE <<>>)
      \o (IF ~config.network THEN <<<<"--network=none">>>> ELSE <<>>)
      \o <<<<"-v">>, source_dir \o <<":/src:ro">>>>
      \o <<<<"-v">>, output_dir \o <<":/output:rw">>>>
      \o MountArgs(config.extra_mounts)
      \o EnvArgs(build_env_vars(config))
      \o <<<<"-w">>, <<"/src">>>>
      \o <<image>>

\* " ".join(f'"{r}"' for r in build_requirements)
RECURSIVE QuotedReqs(_)
QuotedReqs(reqs) ==
    IF reqs = <<>> THEN <<>>
    ELSE <<"\"">> \o Head(reqs) \o <<"\"">>
           \o (IF Len(reqs) > 1 THEN <<" ">> ELSE <<>>) \o QuotedReqs(Tail(reqs))

\* for key, value in config_settings.items(): build_cmd += f" --config-setting={key}={value}"
RECURSIVE SettingArgs(_)
SettingArgs(settings) ==
    IF settings = <<>> THEN <<>>
    ELSE <<" --config-setting=">> \o Head(settings)[1] \o <<"=">> \o Head(settings)[2]
           \o SettingArgs(Tail(settings))

\* "\n".join(lines)
RECURSIVE JoinLines(_)
JoinLines(lines) ==
    IF lines = <<>> THEN <<>>
    ELSE Head(lines) \o (IF Len(lines) > 1 THEN <<"\n">> ELSE <<>>) \o JoinLines(Tail(lines))

\* config_settings = None
NoSettings == <<None>>

\* a build command that restricts to the wheel whenever a wheel is requested
ArtifactFlag_wheel_first(build_wheel, build_sdist) ==
    IF build_wheel THEN <<" --wheel">>
    ELSE IF build_sdist THEN <<" --sdist">> ELSE <<>>

\* the single-artifact flag of the build command (lines 109-112)
ArtifactFlag(build_wheel, build_sdist) ==
    IF build_wheel /\ ~build_sdist THEN <<" --wheel">>
    ELSE IF build_sdist /\ ~build_wheel THEN <<" --sdist">> ELSE <<>>

\* a repair loop without the fallback copy
RepairOrCopy_no_fallback(repair_wheel, build_wheel) ==
    IF repair_wheel /\ build_wheel
    THEN <<<<>>, <<"# Repair wheel for manylinux compatibility">>,
           <<"for whl in /tmp/dist/*.whl; do">>,
           <<"    if [ -f \"$whl\" ]; then">>,
           <<"        auditwheel repair \"$whl\" --plat auto -w /output/">>,
           <<"    fi">>, <<"done">>>>
    ELSE <<<<>>, <<"# Copy artifacts to output">>,
           <<"cp /tmp/dist/* /output/ 2>/dev/null", " || ", "true">>>>

\* the repair loop, or the direct copy (lines 122-146); " || " is a token of its own
RepairOrCopy(repair_wheel, build_wheel) ==
    IF repair_wheel /\ build_wheel
    THEN <<<<>>, <<"# Repair wheel for manylinux compatibility">>,
           <<"for whl in /tmp/dist/*.whl; do">>,
           <<"    if [ -f \"$whl\" ]; then">>,
           <<"        auditwheel repair \"$whl\" --plat auto -w /output/",
             " || ", "cp \"$whl\" /output/">>,
           <<"    fi">>, <<"done">>>>
    ELSE <<<<>>, <<"# Copy artifacts to output">>,
           <<"cp /tmp/dist/* /output/ 2>/dev/null", " || ", "true">>>>

\* the lines of the script, in order; config_settings is None or a dictionary
\* kept as a sequence of <<key, value>>
build_script_lines(python_path, build_requirements, build_wheel, build_sdist, config_settings, repair_wheel) ==
    LET build_cmd ==
            python_path \o <<" -m build">>
              \o ArtifactFlag(build_wheel, build_sdist)
              \o (IF config_settings # NoSettings /\ config_settings # <<>>
                  THEN SettingArgs(config_settings) ELSE <<>>)
              \o <<" --outdir /tmp/dist">>
    IN  <<<<"set -ex">>, <<>>, <<"# Upgrade pip and install build tools">>,
          python_path \o <<" -m pip install --upgrade pip build auditwheel">>>>
          \o (IF build_requirements # <<>>
              THEN <<python_path \o <<" -m pip install ">> \o QuotedReqs(build_requirements)>>
              ELSE <<>>)
          \o <<<<>>, <<"# Build the package">>, build_cmd>>
          \o RepairOrCopy(repair_wheel, build_wheel)
          \o (IF build_sdist
              THEN <<<<"cp /tmp/dist/*.tar.gz /output/ 2>/dev/null", " || ", "true">>>>
              ELSE <<>>)
          \o <<<<>>, <<"# List output">>, <<"ls -la /output/">>>>

generate_build_script(python_path, build_requirements, build_wheel, build_sdist, config_settings, repair_wheel) ==
    JoinLines(build_script_lines(python_path, build_requirements, build_wheel, build_sdist,
                                 config_settings, repair_wheel))

\* build_docker_command: state machine over the configurations a caller builds

EnvKeys ==
    {<<"KEY">>, <<"__HWB_", "DOCKER_IMAGE__">>, <<"PIP_NO_CACHE_DIR">>, <<"X", "__HWB_">>}

\* extra_env dictionaries: up to MaxExtraEnv distinct keys, in any insertion order
ExtraEnvs ==
    {e \in UNION {[1..n -> {<<k, <<"value">>>> : k \in EnvKeys}] : n \in 0..MaxExtraEnv} :
        \A i, j \in 1..Len(e) : i # j => e[i][1] # e[j][1]}

KwNames == {"network", "memory_limit", "cpu_limit", "extra_mounts", "extra_env"}

KwValues ==
    [platform : {"auto"}, image : {NoImage}, architecture : {"x86_64"},
     network : BOOLEAN, memory_limit : {NoLimit, <<"4g">>},
     cpu_limit : {NoLimit, <<"0.0">>, <<"2.0">>},
     repair_wheel : {TRUE}, strip_binaries : {TRUE},
     extra_mounts : {<<>>, <<<<<<"/host">>, <<"/container">>>>>>},
     extra_env : ExtraEnvs]

\* the ways a caller writes DockerConfig(...): which keywords, with which values
ConfigCalls ==
    {c \in [given : SUBSET KwNames, values : KwValues] :
        \A f \in KwNames \ c.given : c.values[f] = DockerDefaults[f]}

SourceDir == <<"/proj">>
OutputDir == <<"/proj/dist">>
BuildImage == Ref(Key("manylinux_2_28_", "x86_64"))

CmdFrame == UNCHANGED <<cleanVars, wheelVars, atomVars, imgVars, dockerVars>>

CmdInit == \E c \in ConfigCalls : call = [op |-> "pending", given |-> c.given, values |-> c.values]

BuildDockerCommand ==
    /\ call.op = "pending"
    /\ LET config == DockerConfig(call.given, call.values)
       IN  call' = [op |-> "build_docker_command", given |-> call.given, config |-> config,
                    outcome |-> Returned(build_docker_command(config, BuildImage,
                                                              SourceDir, OutputDir))]
    /\ CmdFrame

BuildEnvVars ==
    /\ call.op = "pending"
    /\ LET config == DockerConfig(call.given, call.values)
       IN  call' = [op |-> "build_env_vars", given |-> call.given, config |-> config,
                    outcome |-> Returned(build_env_vars(config))]
    /\ CmdFrame

CmdNext == BuildDockerCommand \/ BuildEnvVars

InitCommand == CmdInit /\ CleanIdle /\ WheelIdle /\ AtomIdle /\ ImgIdle /\ DockerIdle

SpecCommand == InitCommand /\ [][CmdNext]_vars

\* the argument vector contains the argument a
HasArg(cmd, a) == \E i \in 1..Len(cmd) : cmd[i] = a

\* C14 (as claimed): whenever networking has not been explicitly enabled, the
\* default DockerConfig() included, build_docker_command includes --network=none;
\* the flag is left out only when networking was explicitly enabled.
C14_NetworkOffByDefaultAsClaimed ==
    call.op = "build_docker_command" =>
        (HasArg(call.outcome.value, <<"--network=none">>)
            <=> ~("network" \in call.given /\ call.config.network))

\* C14 (amended): build_docker_command includes --network=none exactly when the
\* configuration's network field is false; a DockerConfig built without a network
\* keyword has network = True, so for it the flag is left out.
C14_NetworkFlagFollowsConfig ==
    call.op = "build_docker_command" =>
        /\ HasArg(call.outcome.value, <<"--network=none">>) <=> ~call.config.network
        /\ "network" \notin call.given => ~HasArg(call.outcome.value, <<"--network=none">>)

\* C14 witness: the command for DockerConfig(network=False) carries the flag
C14_Witness ==
    /\ call.op = "build_docker_command"
    /\ call.given = {"network"}
    /\ ~call.config.network
    /\ HasArg(call.outcome.value, <<"--network=none">>)

-----------------------------------------------------------------------------
(* isolation/docker.py: DockerIsolation                                     *)
(* dk holds one DockerIsolation instance together with what it did on the   *)
(* host: config and the version requested, the memo of check_available, the *)
(* subprocesses launched so far, the temporary work directories that exist, *)
(* the BuildEnvironment handed out, and the last call with its outcome.      *)

\* calls made on one instance in one run
MaxCalls == 3

PyVersions == {<<"3", ".", "1", "2", ".", "1">>, <<"2", ".", "7">>, <<>>}

\* the configurations of the instance: image, platform, architecture and extra_env
\* are given, everything else is at its default
DockerConfigs ==
    {DockerConfig({"image", "platform", "architecture", "extra_env"},
                  [image |-> i, platform |-> p, architecture |-> a, extra_env |-> e]) :
        i \in {NoImage, CustomImage}, p \in {"auto"}, a \in {"x86_64", "i686"},
        e \in {<<>>, <<<<<<"KEY">>, <<"value">>>>>>,
               <<<<<<"__HWB_", "DOCKER_IMAGE__">>, <<"value">>>>, <<<<"KEY">>, <<"value">>>>>>}}

Launched(d, cmds) == [d EXCEPT !.launched = @ \o cmds]

\* check_available: the memo if set, else shutil.which("docker") and `docker info`
\* [d |-> the instance afterwards, value |-> what is returned]
check_available(d, which_ok, info_ok) ==
    IF d.docker_available # "None"
    THEN [d |-> d, value |-> d.docker_available = "True"]
    ELSE IF ~which_ok
    THEN [d |-> [d EXCEPT !.docker_available = "False"], value |-> FALSE]
    ELSE [d |-> [Launched(d, <<Words(<<"docker", "info">>)>>) EXCEPT
                    !.docker_available = IF info_ok THEN "True" ELSE "False"],
          value |-> info_ok]

\* the four variables create_environment stores for build_in_container
InternalEnv(image, python_path, work_dir, build_requirements) ==
    [k \in {"__HWB_DOCKER_IMAGE__", "__HWB_DOCKER_PYTHON__", "__HWB_DOCKER_WORKDIR__",
            "__HWB_BUILD_REQS__"} |->
        CASE k = "__HWB_DOCKER_IMAGE__" -> image
          [] k = "__HWB_DOCKER_PYTHON__" -> python_path
          [] k = "__HWB_DOCKER_WORKDIR__" -> work_dir
          [] OTHER -> build_requirements]

\* create_environment(python_version, build_requirements) on instance d
\* [d |-> the instance and host afterwards, outcome |-> return or raise]
create_environment(d, python_version, build_requirements, which_ok, info_ok, inspect_ok, pull_ok) ==
    LET avail == check_available(d, which_ok, info_ok)
        sel == docker_select_image(d.config, inspect_ok, pull_ok)
        d1 == Launched(avail.d, sel.launched)
        work_dir == <<"hwb_docker_", Cardinality(d.workdirs) + 1>>
        d2 == [d1 EXCEPT !.workdirs = @ \cup {work_dir}]
        py == get_container_python(python_version)
        env == [python_path |-> py.value,
                env_vars |-> InternalEnv(sel.outcome.value, py.value, work_dir, build_requirements),
                work_dir |-> work_dir]
    IN  IF ~avail.value
        THEN [d |-> avail.d, outcome |-> IsolationError("Docker is not available", {})]
        ELSE IF sel.outcome.kind = "raise"
        THEN [d |-> d1, outcome |-> sel.outcome]
        ELSE IF py.kind = "raise"
        THEN [d |-> d2, outcome |-> py]
        ELSE [d |-> [d2 EXCEPT !.env = env], outcome |-> Returned(env)]

\* the file names a container run may leave in the output directory
OutNames == {f_whl, f_targz, f_readme}

\* what the container printed
BuildLogs == {<<"line 1", "line 2">>, <<"error">>}

LastDot(name) == IF \A i \in 1..Len(name) : name[i] # "." THEN 0
                 ELSE CHOOSE i \in 1..Len(name) :
                        name[i] = "." /\ \A j \in (i + 1)..Len(name) : name[j] # "."

\* Path.suffix
Suffix(name) == IF LastDot(name) <= 1 THEN <<>> ELSE SubSeq(name, LastDot(name), Len(name))

\* sub in name
Contains(name, sub) ==
    \E i \in 1..(Len(name) - Len(sub) + 1) : SubSeq(name, i, i + Len(sub) - 1) = sub

\* build_in_container up to `await process.communicate()`: the docker run
\* subprocess is launched and awaited
build_start(d, build_wheel, build_sdist, config_settings) ==
    LET image == d.env.env_vars["__HWB_DOCKER_IMAGE__"]
        python_path == d.env.env_vars["__HWB_DOCKER_PYTHON__"]
        build_reqs == d.env.env_vars["__HWB_BUILD_REQS__"]
        docker_cmd == build_docker_command(d.config, image, SourceDir, OutputDir)
        build_script == generate_build_script(python_path, build_reqs, build_wheel, build_sdist,
                                              config_settings, d.config.repair_wheel)
        full_cmd == docker_cmd \o Words(<<"bash", "-c">>) \o <<build_script>>
    IN  [Launched(d, <<full_cmd>>) EXCEPT
            !.proc = [state |-> "awaited", cmd |-> full_cmd,
                      build_wheel |-> build_wheel, build_sdist |-> build_sdist]]

\* build_in_container without its exit-code test (lines 225-226 left out)
build_finish_unchecked(d, returncode, build_log, wheel, sdist) ==
    Returned([wheel_path |-> wheel, sdist_path |-> sdist, build_log |-> build_log])

\* build_in_container after communicate() returned: the exit code is examined
\* and the output directory scanned; wheel and sdist are the entries the scan saw
\* last (NoPath if it saw none)
build_finish(d, returncode, build_log, wheel, sdist) ==
    IF returncode # 0
    THEN [kind |-> "raise", type |-> "IsolationError", msg |-> "Docker build failed",
          keys |-> {}, log |-> build_log]
    ELSE Returned([wheel_path |-> wheel, sdist_path |-> sdist, build_log |-> build_log])

\* the scan keeps the last matching entry it meets, in directory order
ScanChoices(matching) == IF matching = {} THEN {NoPath} ELSE matching

IsWheelEntry(f) == Suffix(f) = <<".", "w", "h", "l">>

IsSdistEntry(f) == Suffix(f) = <<".", "g", "z">> /\ Contains(f, <<".", "t", "a", "r">>)

\* create_environment.cleanup: shutil.rmtree(work_dir, ignore_errors=True)
cleanup(d, rm_ok) ==
    IF d.env.work_dir \in d.workdirs /\ rm_ok
    THEN [d EXCEPT !.workdirs = @ \ {d.env.work_dir}]
    ELSE d

\* the Engine releases the environment on every exit path of the build step
engine_release(d, rm_ok) == [cleanup(d, rm_ok) EXCEPT !.released = @ + 1]

\* cli build: HWBError -> exit 1, KeyboardInterrupt -> exit 130, a failed
\* BuildResult -> SystemExit(1), anything else escapes as a traceback (exit 1)
cli_exit_status(outcome) ==
    IF outcome.kind = "return" THEN 0
    ELSE IF outcome.type = "KeyboardInterrupt" THEN 130
    ELSE 1

NewIsolation(config, version) ==
    [config |-> config, version |-> version, docker_available |-> "None",
     launched |-> <<>>, workdirs |-> {}, env |-> NoCall, calls |-> 0, last |-> NoCall,
     proc |-> [state |-> "none"], outdir |-> {}, released |-> 0]

DockerFrame == UNCHANGED <<cleanVars, wheelVars, atomVars, imgVars, callVars>>

DockerInit == \E c \in DockerConfigs, v \in PyVersions : dk = NewIsolation(c, v)

CheckAvailable ==
    /\ dk.calls < MaxCalls
    /\ \E which_ok \in BOOLEAN, info_ok \in BOOLEAN :
        LET r == check_available(dk, which_ok, info_ok)
        IN  dk' = [r.d EXCEPT !.calls = @ + 1,
                              !.last = [op |-> "check_available", outcome |-> Returned(r.value),
                                        launched |-> SubSeq(r.d.launched, Len(dk.launched) + 1,
                                                            Len(r.d.launched))]]
    /\ DockerFrame

CreateEnvironment ==
    /\ dk.calls < MaxCalls
    /\ \E which_ok \in BOOLEAN, info_ok \in BOOLEAN, inspect_ok \in BOOLEAN, pull_ok \in BOOLEAN :
        LET r == create_environment(dk, dk.version, <<>>, which_ok, info_ok, inspect_ok, pull_ok)
        IN  dk' = [r.d EXCEPT !.calls = @ + 1,
                              !.last = [op |-> "create_environment", outcome |-> r.outcome,
                                        launched |-> SubSeq(r.d.launched, Len(dk.launched) + 1,
                                                            Len(r.d.launched))]]
    /\ DockerFrame

\* build_in_container is entered with the environment create_environment returned
BuildStart ==
    /\ dk.calls < MaxCalls
    /\ dk.env # NoCall
    /\ dk.proc.state # "awaited"
    /\ \E build_wheel \in BOOLEAN, build_sdist \in BOOLEAN :
        LET d == build_start(dk, build_wheel, build_sdist, NoSettings)
        IN  dk' = [d EXCEPT !.calls = @ + 1,
                            !.last = [op |-> "build_start", outcome |-> NoCall,
                                      launched |-> <<d.proc.cmd>>]]
    /\ DockerFrame

\* `python -m build`: the artifact kinds the backend produces for a command line
Produced(build_cmd) ==
    IF \E i \in 1..Len(build_cmd) : build_cmd[i] = " --wheel" THEN {"wheel"}
    ELSE IF \E i \in 1..Len(build_cmd) : build_cmd[i] = " --sdist" THEN {"sdist"}
    ELSE {"wheel", "sdist"}

\* the files the container of process proc may leave in the output directory: a
\* wheel or an sdist only if its script makes the backend build one
Producible(proc) ==
    LET kinds == Produced(proc.cmd[Len(proc.cmd)])
    IN  {f \in OutNames : /\ IsWheelEntry(f) => "wheel" \in kinds
                          /\ IsSdistEntry(f) => "sdist" \in kinds}

\* the container exits: build_in_container finishes, then the Engine releases the
\* environment and the command line turns the outcome into an exit status
ProcessExit ==
    /\ dk.proc.state = "awaited"
    /\ \E returncode \in {0, 1}, build_log \in BuildLogs,
          produced \in SUBSET Producible(dk.proc), rm_ok \in BOOLEAN :
        LET outdir == dk.outdir \cup produced
        IN  \E wheel \in ScanChoices({f \in outdir : IsWheelEntry(f)}),
               sdist \in ScanChoices({f \in outdir : IsSdistEntry(f)}) :
            LET outcome == build_finish(dk, returncode, build_log, wheel, sdist)
                d == [dk EXCEPT !.outdir = outdir, !.proc.state = "exited"]
            IN  dk' = [engine_release(d, rm_ok) EXCEPT
                          !.last = [op |-> "build_in_container", outcome |-> outcome,
                                    returncode |-> returncode, build_log |-> build_log,
                                    produced |-> produced,
                                    launched |-> <<>>, exit |-> cli_exit_status(outcome)]]
    /\ DockerFrame

\* the build is interrupted (Ctrl-C) or its task cancelled while communicate() is
\* awaited: the exception leaves build_in_container, which does nothing about the
\* subprocess; whether the subprocess got the terminal's signal too is the host's
Interrupt ==
    /\ dk.proc.state = "awaited"
    /\ \E type \in {"KeyboardInterrupt", "CancelledError"}, signalled \in BOOLEAN,
          rm_ok \in BOOLEAN :
        LET outcome == [kind |-> "raise", type |-> type]
            d == [dk EXCEPT !.proc.state = IF signalled THEN "terminated" ELSE "orphaned"]
        IN  dk' = [engine_release(d, rm_ok) EXCEPT
                      !.last = [op |-> "build_in_container", outcome |-> outcome,
                                launched |-> <<>>, exit |-> cli_exit_status(outcome)]]
    /\ DockerFrame

DockerNext == CheckAvailable \/ CreateEnvironment \/ BuildStart \/ ProcessExit \/ Interrupt

InitDocker == DockerInit /\ CleanIdle /\ WheelIdle /\ AtomIdle /\ ImgIdle /\ CallIdle

SpecDocker == InitDocker /\ [][DockerNext]_vars

-----------------------------------------------------------------------------
(* Claims about DockerIsolation                                             *)

IsDockerRun(cmd) == Len(cmd) >= 2 /\ cmd[1] = <<"docker">> /\ cmd[2] = <<"run">>

NoContainerStarted == \A i \in 1..Len(dk.launched) : ~IsDockerRun(dk.launched[i])

\* C13 (as claimed): when the requested Python version is unsupported (such as
\* "2.7"), create_environment fails with an IsolationError listing the supported
\* versions, and no `docker run` is ever launched for that request.  Only calls
\* made with Docker found available are looked at: the statement fails even so.
C13_UnsupportedVersionAsClaimed ==
    (MajorMinorOf(dk.version) \notin SupportedAsClaimed) =>
        /\ NoContainerStarted
        /\ (dk.last.op = "create_environment" /\ dk.docker_available = "True") =>
              /\ dk.last.outcome.kind = "raise"
              /\ dk.last.outcome.type = "IsolationError"
              /\ dk.last.outcome.keys = SupportedAsClaimed

\* the docker run commands launched so far
ContainerRuns == {dk.launched[i] : i \in {j \in 1..Len(dk.launched) : IsDockerRun(dk.launched[j])}}

\* positions of cmd where "-e" is followed by exactly the argument a
EnvPositions(cmd, a) == {i \in 1..(Len(cmd) - 1) : cmd[i] = <<"-e">> /\ cmd[i + 1] = a}

\* the arguments that follow a "-e"
EnvArguments(cmd) == {cmd[i + 1] : i \in {j \in 1..(Len(cmd) - 1) : cmd[j] = <<"-e">>}}

\* NAME of an argument NAME=VALUE
NameOf(arg) ==
    IF \A i \in 1..Len(arg) : arg[i] # "=" THEN arg
    ELSE SubSeq(arg, 1, (CHOOSE i \in 1..Len(arg) :
                            arg[i] = "=" /\ \A j \in 1..(i - 1) : arg[j] # "=") - 1)

IsReservedName(name) == name # <<>> /\ name[1] = "__HWB_"

StateVariableNames ==
    {<<"__HWB_", "DOCKER_IMAGE__">>, <<"__HWB_", "DOCKER_PYTHON__">>,
     <<"__HWB_", "DOCKER_WORKDIR__">>, <<"__HWB_", "BUILD_REQS__">>}

\* C15: in every docker run command that build_in_container executes, each
\* extra_env variable whose name does not start with __HWB_ is passed as one
\* "-e NAME=VALUE" argument, no argument names a variable starting with __HWB_,
\* and the names of the state variables create_environment stores
\* (__HWB_DOCKER_IMAGE__, __HWB_DOCKER_PYTHON__, __HWB_DOCKER_WORKDIR__,
\* __HWB_BUILD_REQS__) do not occur.
C15_NoReservedVariableForwarded ==
    \A cmd \in ContainerRuns :
        /\ \A i \in 1..Len(dk.config.extra_env) :
              LET kv == dk.config.extra_env[i]
              IN  ~IsReservedName(kv[1]) =>
                      Cardinality(EnvPositions(cmd, kv[1] \o <<"=">> \o kv[2])) = 1
        /\ \A i \in 1..Len(cmd) : ~IsReservedName(cmd[i])
        /\ \A a \in EnvArguments(cmd) : NameOf(a) \notin StateVariableNames

\* C15 witness: a container was started for a configuration whose extra_env holds
\* __HWB_DOCKER_IMAGE__ and KEY, and KEY=value was passed on
C15_Witness ==
    /\ dk.last.op = "build_start"
    /\ Len(dk.config.extra_env) = 2
    /\ IsReservedName(dk.config.extra_env[1][1])
    /\ \E cmd \in ContainerRuns : EnvPositions(cmd, <<"KEY", "=", "value">>) # {}
    /\ DOMAIN dk.env.env_vars = {"__HWB_DOCKER_IMAGE__", "__HWB_DOCKER_PYTHON__",
                                 "__HWB_DOCKER_WORKDIR__", "__HWB_BUILD_REQS__"}

\* the step that ends build_in_container with an interruption or a cancellation
\* raised while the container subprocess is awaited
InterruptedStep ==
    /\ dk.proc.state = "awaited"
    /\ dk'.last.op = "build_in_container"
    /\ dk'.last.outcome.kind = "raise"
    /\ dk'.last.outcome.type \in {"KeyboardInterrupt", "CancelledError"}

\* C16 (as claimed): when a build is interrupted or cancelled while the container
\* subprocess is in flight, the subprocess is terminated, the environment's
\* release callback runs, and the command line ends with exit status 130, not 1.
C16_InterruptAsClaimed ==
    [][InterruptedStep =>
          /\ dk'.proc.state = "terminated"
          /\ dk'.released = dk.released + 1
          /\ dk'.last.exit = 130]_vars

\* the last step was a container subprocess that exited on its own
ContainerExited == dk.last.op = "build_in_container" /\ dk.proc.state = "exited"

\* C17: when the container build subprocess exits with a non-zero code,
\* build_in_container raises IsolationError "Docker build failed" carrying the
\* whole captured output, returns no wheel or sdist path, and the command line
\* ends with exit status 1.
C17_NonZeroExitIsFailure ==
    (ContainerExited /\ dk.last.returncode # 0) =>
        /\ dk.last.outcome.kind = "raise"
        /\ dk.last.outcome.type = "IsolationError"
        /\ dk.last.outcome.msg = "Docker build failed"
        /\ dk.last.outcome.log = dk.last.build_log
        /\ dk.last.exit = 1

\* C17 witness: the container exited with code 1 although a wheel and an sdist
\* lie in the output directory, and the build was reported as failed
C17_Witness ==
    /\ ContainerExited
    /\ dk.last.returncode = 1
    /\ \E f \in dk.outdir : IsWheelEntry(f)
    /\ \E f \in dk.outdir : IsSdistEntry(f)
    /\ dk.last.outcome.kind = "raise"
    /\ dk.last.build_log # <<>>
    /\ dk.last.exit = 1

-----------------------------------------------------------------------------
(* core/builder_metadata.py: wheel file names                               *)
(* A file name is a sequence of tokens; "-" and "_" are tokens of their own *)
(* and every token that holds a dot starts with it and holds no other.      *)

MaxComponents == 6

DotTokens == {".whl", ".0", ".tar", ".gz"}

\* the dash-free pieces file names are made of
WheelComponents == {<<"package">>, <<"my", "_", "package">>, <<"1", ".0">>, <<"x", ".whl">>}

Extensions == {<<>>, <<".whl">>, <<".tar", ".gz">>}

RECURSIVE JoinDash(_)
JoinDash(p) ==
    IF p = <<>> THEN <<>>
    ELSE IF Len(p) = 1 THEN Head(p)
    ELSE Head(p) \o <<"-">> \o JoinDash(Tail(p))

Filenames ==
    {JoinDash(c) \o e : c \in UNION {[1..n -> WheelComponents] : n \in 1..MaxComponents},
                        e \in Extensions}

\* str.replace(old, ""), old being one token
Remove(str, old) == SelectSeq(str, LAMBDA t : t # old)

\* Path.stem: the name without its last suffix; a dot at the very start of the
\* name does not begin a suffix
Stem(name) ==
    LET dots == {i \in 1..Len(name) : name[i] \in DotTokens}
    IN  IF dots = {} THEN name
        ELSE LET k == CHOOSE i \in dots : \A j \in dots : j <= i
             IN  IF k = 1 THEN name ELSE SubSeq(name, 1, k - 1)

ValueError(filename) ==
    [kind |-> "raise", type |-> "ValueError",
     msg |-> <<"Invalid wheel filename format: ", filename,
               "\nExpected: {distribution}-{version}-{python}-{abi}-{platform}.whl">>]

\* extract_wheel_metadata(wheel_path, result): the fields it sets on result
extract_wheel_metadata(wheel_path) ==
    LET name == Stem(wheel_path)
        pieces == SplitOn(name, "-")
        n == Len(pieces)
    IN  IF n < 5 THEN ValueError(wheel_path)
        ELSE Returned([name |-> Replace(pieces[1], "_", "-"),
                       version |-> pieces[2],
                       python_tag |-> pieces[n - 2],
                       abi_tag |-> pieces[n - 1],
                       platform_tag |-> pieces[n]])

parse_wheel_filename(filename) ==
    LET name == Remove(filename, ".whl")
        pieces == SplitOn(name, "-")
        n == Len(pieces)
    IN  IF n < 5 THEN ValueError(filename)
        ELSE Returned([name |-> Replace(pieces[1], "_", "-"),
                       version |-> pieces[2],
                       python_tag |-> pieces[n - 2],
                       abi_tag |-> pieces[n - 1],
                       platform_tag |-> pieces[n],
                       full_filename |-> filename])

validate_wheel_filename(filename) ==
    IF ~EndsWith(filename, <<".whl">>) THEN FALSE
    ELSE Len(SplitOn(Remove(filename, ".whl"), "-")) >= 5

MetaFrame == UNCHANGED <<cleanVars, wheelVars, atomVars, imgVars, dockerVars>>

MetaInit == \E f \in Filenames : call = [op |-> "pending", filename |-> f]

ExtractWheelMetadata ==
    /\ call.op = "pending"
    /\ call' = [op |-> "extract_wheel_metadata", filename |-> call.filename,
                outcome |-> extract_wheel_metadata(call.filename)]
    /\ MetaFrame

ParseWheelFilename ==
    /\ call.op = "pending"
    /\ call' = [op |-> "parse_wheel_filename", filename |-> call.filename,
                outcome |-> parse_wheel_filename(call.filename)]
    /\ MetaFrame

ValidateWheelFilename ==
    /\ call.op = "pending"
    /\ call' = [op |-> "validate_wheel_filename", filename |-> call.filename,
                outcome |-> Returned(validate_wheel_filename(call.filename))]
    /\ MetaFrame

MetaNext == ExtractWheelMetadata \/ ParseWheelFilename \/ ValidateWheelFilename

InitMetadata == MetaInit /\ CleanIdle /\ WheelIdle /\ AtomIdle /\ ImgIdle /\ DockerIdle

SpecMetadata == InitMetadata /\ [][MetaNext]_vars

-----------------------------------------------------------------------------
(* Claims about wheel file names                                            *)

IsWheelName(filename) == EndsWith(filename, <<".whl">>)

\* the dash-separated components of a file name once its .whl extension is removed
ComponentsOf(filename) ==
    SplitOn(IF IsWheelName(filename) THEN SubSeq(filename, 1, Len(filename) - 1) ELSE filename,
            "-")

\* C19 (as claimed): for a wheel file name with at least five dash-separated
\* components, parse_wheel_filename and extract_wheel_metadata give the first
\* component with "_" replaced by "-" as name, the second component as version
\* and the last three components as python, ABI and platform tag; for a file
\* name with fewer than five components both raise ValueError "Invalid wheel
\* filename" with the expected pattern.
C19_ParseAsClaimed ==
    call.op \in {"parse_wheel_filename", "extract_wheel_metadata"} =>
        LET c == ComponentsOf(call.filename)
            n == Len(c)
        IN  /\ (IsWheelName(call.filename) /\ n >= 5) =>
                  /\ call.outcome.kind = "return"
                  /\ call.outcome.value.name = Replace(c[1], "_", "-")
                  /\ call.outcome.value.version = c[2]
                  /\ call.outcome.value.python_tag = c[n - 2]
                  /\ call.outcome.value.abi_tag = c[n - 1]
                  /\ call.outcome.value.platform_tag = c[n]
            /\ n < 5 =>
                  /\ call.outcome.kind = "raise"
                  /\ call.outcome.type = "ValueError"
                  /\ call.outcome.msg[1] = "Invalid wheel filename format: "
                  /\ call.outcome.msg[3] =
                        "\nExpected: {distribution}-{version}-{python}-{abi}-{platform}.whl"

\* C20 (as claimed): parse_wheel_filename raises ValueError for every file name
\* that does not end in .whl, however many components it has, and so returns
\* only for names that validate_wheel_filename accepts.
C20_NonWheelRejectedAsClaimed ==
    call.op = "parse_wheel_filename" =>
        /\ ~IsWheelName(call.filename) =>
              (call.outcome.kind = "raise" /\ call.outcome.type = "ValueError")
        /\ call.outcome.kind = "return" => validate_wheel_filename(call.filename)

-----------------------------------------------------------------------------
(* DockerIsolation.check_available called from several tasks of one event   *)
(* loop on the same instance: a call runs up to its first await, is         *)
(* suspended while `docker info` runs, and resumes when the subprocess ends *)

MaxProbeCalls == 5

ProbeTasks == {1, 2}

\* how the awaited `docker info` ends: its return code, or an exception
ProbeResults == {"0", "1", "OSError"}

NewProbeTask == [pc |-> "idle", returned |-> "None"]

\* one instance, shared by the tasks, on a host where shutil.which("docker")
\* finds the program or not
SharedIsolation(which_ok) ==
    [docker_available |-> "None", which_ok |-> which_ok, launched |-> <<>>, calls |-> 0,
     task |-> [t \in ProbeTasks |-> NewProbeTask], last |-> NoCall]

BoolName(b) == IF b THEN "True" ELSE "False"

\* check_available from its entry to the first await (lines 125-139)
check_available_begin(d, t, which_ok) ==
    IF d.docker_available # "None"
    THEN [d EXCEPT !.task[t] = [pc |-> "idle", returned |-> d.docker_available]]
    ELSE IF ~which_ok
    THEN [d EXCEPT !.docker_available = "False",
                   !.task[t] = [pc |-> "idle", returned |-> "False"]]
    ELSE [Launched(d, <<Words(<<"docker", "info">>)>>) EXCEPT
             !.task[t] = [pc |-> "awaiting", returned |-> "None"]]

\* check_available from the end of the await to its return (lines 140-145)
check_available_end(d, t, result) ==
    LET value == BoolName(result = "0")
    IN  [d EXCEPT !.docker_available = value,
                  !.task[t] = [pc |-> "idle", returned |-> value]]

ProbeInit == \E which_ok \in BOOLEAN : dk = SharedIsolation(which_ok)

CheckAvailableBegin ==
    /\ dk.calls < MaxProbeCalls
    /\ \E t \in ProbeTasks :
        /\ dk.task[t].pc = "idle"
        /\ dk' = [check_available_begin(dk, t, dk.which_ok) EXCEPT
                     !.calls = @ + 1,
                     !.last = [op |-> "check_available_begin", task |-> t,
                               memo |-> dk.docker_available]]
    /\ DockerFrame

CheckAvailableEnd ==
    /\ \E t \in ProbeTasks, result \in ProbeResults :
        /\ dk.task[t].pc = "awaiting"
        /\ dk' = [check_available_end(dk, t, result) EXCEPT
                     !.last = [op |-> "check_available_end", task |-> t,
                               memo |-> dk.docker_available]]
    /\ DockerFrame

ProbeNext == CheckAvailableBegin \/ CheckAvailableEnd

InitProbe == ProbeInit /\ CleanIdle /\ WheelIdle /\ AtomIdle /\ ImgIdle /\ CallIdle

SpecProbe == InitProbe /\ [][ProbeNext]_vars

\* C21 (as claimed): once check_available has resolved to true or false on an
\* instance, the stored value is never overwritten with a different value
\* whatever the interleaving of the calls, no `docker info` is launched again,
\* and every call that returns afterwards returns that value.
C21_MemoizedAsClaimed ==
    [][dk.docker_available # "None" =>
          /\ dk'.docker_available = dk.docker_available
          /\ dk'.launched = dk.launched
          /\ \A t \in ProbeTasks :
                dk'.task[t] # dk.task[t] => dk'.task[t].returned = dk.docker_available]_vars

-----------------------------------------------------------------------------
(* The build script: its generation from the command line's options, and   *)
(* its execution by bash inside the container                               *)

MaxSettings == 2

\* values given to -C on the command line
SettingStrings ==
    {<<"key", "=", "value">>, <<"key", "=", "other">>,
     <<"another", "=", "a", "=", "b">>, <<"no_equals">>}

CliSettings == UNION {[1..n -> SettingStrings] : n \in 0..MaxSettings}

ScriptPython == <<"/opt/python/cp311-cp311/bin/python">>

RequirementLists == {<<>>, <<<<"setuptools">>>>, <<<<"setuptools">>, <<"wheel">>>>}

\* position of the first "=" of a setting, 0 if it has none
FirstEquals(setting) ==
    IF \A i \in 1..Len(setting) : setting[i] # "=" THEN 0
    ELSE CHOOSE i \in 1..Len(setting) : setting[i] = "=" /\ \A j \in 1..(i - 1) : setting[j] # "="

\* _parse_config_settings(settings)
parse_config_settings(settings) ==
    IF \E i \in 1..Len(settings) : FirstEquals(settings[i]) = 0
    THEN [kind |-> "raise", type |-> "click.BadParameter",
          msg |-> "Config setting must be KEY=VALUE format"]
    ELSE Returned([i \in 1..Len(settings) |->
                      <<SubSeq(settings[i], 1, FirstEquals(settings[i]) - 1),
                        SubSeq(settings[i], FirstEquals(settings[i]) + 1, Len(settings[i]))>>])

\* execute_build: config_settings=dict(_parse_config_settings(config_settings))
settings_dict(parsed) == DictUpdate(<<>>, parsed)

\* lines bash executes without running a program
CommentTokens ==
    {"# Upgrade pip and install build tools", "# Build the package",
     "# Repair wheel for manylinux compatibility", "# Copy artifacts to output", "# List output"}

IsComment(line) == line = <<>> \/ line[1] \in CommentTokens

ShellKeywords ==
    {<<"set -ex">>, <<"for whl in /tmp/dist/*.whl; do">>, <<"    if [ -f \"$whl\" ]; then">>,
     <<"    fi">>, <<"done">>}

\* the commands of a line, `A || B` giving <<A, B>>
Alternatives(line) == SplitOn(line, " || ")

IsCommandLine(line) == ~IsComment(line) /\ line \notin ShellKeywords

\* the programs a script may run
CommandsOf(lines) ==
    UNION {{Alternatives(lines[i])[k] : k \in 1..Len(Alternatives(lines[i]))} :
              i \in {j \in 1..Len(lines) : IsCommandLine(lines[j])}}

\* the lines between `for ... do` and `done`
InLoop(lines, i) ==
    /\ \E a \in 1..(i - 1) : lines[a] = <<"for whl in /tmp/dist/*.whl; do">>
    /\ \E b \in (i + 1)..Len(lines) : lines[b] = <<"done">>

\* the commands of a line that run, in order: each one after the first runs only
\* when the one before it failed
RECURSIVE RunAlternatives(_, _)
RunAlternatives(alts, failing) ==
    IF alts = <<>> THEN <<>>
    ELSE IF Head(alts) \in failing THEN <<Head(alts)>> \o RunAlternatives(Tail(alts), failing)
    ELSE <<Head(alts)>>

\* exit status of a line: that of the last command that ran
LineStatus(line, failing) ==
    LET ran == RunAlternatives(Alternatives(line), failing)
    IN  IF ran[Len(ran)] \in failing THEN 1 ELSE 0

\* bash running the lines from line i on: under `set -e` the first line whose
\* status is not zero ends the run; the loop body runs once per staged wheel
RECURSIVE RunFrom(_, _, _, _, _)
RunFrom(lines, i, failing, staged, errexit) ==
    IF i > Len(lines) THEN [status |-> 0, ran |-> <<>>]
    ELSE IF ~IsCommandLine(lines[i]) \/ (InLoop(lines, i) /\ ~staged)
    THEN RunFrom(lines, i + 1, failing, staged, errexit \/ lines[i] = <<"set -ex">>)
    ELSE LET ran == RunAlternatives(Alternatives(lines[i]), failing)
             st == LineStatus(lines[i], failing)
             rest == RunFrom(lines, i + 1, failing, staged, errexit)
         IN  IF st # 0 /\ errexit THEN [status |-> st, ran |-> ran]
             ELSE [status |-> IF i = Len(lines) THEN st ELSE rest.status, ran |-> ran \o rest.ran]

run_script(lines, failing, staged) == RunFrom(lines, 1, failing, staged, FALSE)

\* the build command line of a script
BuildLine(lines) ==
    lines[CHOOSE i \in 1..Len(lines) : \E k \in 1..Len(lines[i]) : lines[i][k] = " -m build"]

ScriptFrame == UNCHANGED <<cleanVars, wheelVars, atomVars, imgVars, dockerVars>>

ScriptInit ==
    \E settings \in CliSettings, build_requirements \in RequirementLists,
       build_wheel \in BOOLEAN, build_sdist \in BOOLEAN, repair_wheel \in BOOLEAN :
        call = [op |-> "pending",
                in |-> [settings |-> settings, build_requirements |-> build_requirements,
                        build_wheel |-> build_wheel, build_sdist |-> build_sdist,
                        repair_wheel |-> repair_wheel]]

ParseConfigSettings ==
    /\ call.op = "pending"
    /\ call' = [op |-> "parse_config_settings", in |-> call.in,
                outcome |-> parse_config_settings(call.in.settings)]
    /\ ScriptFrame

\* the command line's settings reach generate_build_script as a dictionary; a
\* caller of the function may also pass None
GenerateBuildScript ==
    /\ call.op = "pending"
    /\ LET parsed == parse_config_settings(call.in.settings)
       IN  \E config_settings \in
                  (IF parsed.kind = "return" THEN {settings_dict(parsed.value)} ELSE {})
                     \cup (IF call.in.settings = <<>> \/ parsed.kind = "raise"
                           THEN {NoSettings} ELSE {}) :
             call' = [op |-> "generate_build_script", in |-> call.in,
                      config_settings |-> config_settings,
                      from_cli |-> (parsed.kind = "return" /\ config_settings # NoSettings),
                      lines |-> build_script_lines(ScriptPython, call.in.build_requirements,
                                    call.in.build_wheel, call.in.build_sdist,
                                    config_settings, call.in.repair_wheel),
                      script |-> generate_build_script(ScriptPython, call.in.build_requirements,
                                    call.in.build_wheel, call.in.build_sdist,
                                    config_settings, call.in.repair_wheel)]
    /\ ScriptFrame

\* bash -c script inside the container; which programs fail, and whether a wheel
\* got staged, is the container's
RunScript ==
    /\ call.op = "generate_build_script"
    /\ \E failing \in SUBSET (CommandsOf(call.lines) \ {<<"true">>}), staged \in BOOLEAN :
        /\ staged => ("wheel" \in Produced(BuildLine(call.lines))
                        /\ BuildLine(call.lines) \notin failing)
        /\ call' = [op |-> "run_script", in |-> call.in, lines |-> call.lines,
                    failing |-> failing, staged |-> staged,
                    run |-> run_script(call.lines, failing, staged)]
    /\ ScriptFrame

ScriptNext == ParseConfigSettings \/ GenerateBuildScript \/ RunScript

InitScript == ScriptInit /\ CleanIdle /\ WheelIdle /\ AtomIdle /\ ImgIdle /\ DockerIdle

SpecScript == InitScript /\ [][ScriptNext]_vars

-----------------------------------------------------------------------------
(* Claims about the build script                                            *)

HasToken(line, t) == \E k \in 1..Len(line) : line[k] = t

\* the lines that invoke the build backend
BuildLineNumbers(lines) == {i \in 1..Len(lines) : HasToken(lines[i], " -m build")}

\* C22: the script invokes the build backend exactly once, with --wheel exactly
\* when a wheel and no sdist is requested, with --sdist exactly when an sdist and
\* no wheel is requested, with neither flag when both are requested, and always
\* with --outdir /tmp/dist.
C22_SingleBuildInvocation ==
    call.op = "generate_build_script" =>
        /\ Cardinality(BuildLineNumbers(call.lines)) = 1
        /\ \A i \in BuildLineNumbers(call.lines) :
              LET line == call.lines[i]
              IN  /\ HasToken(line, " --wheel") <=> (call.in.build_wheel /\ ~call.in.build_sdist)
                  /\ HasToken(line, " --sdist") <=> (call.in.build_sdist /\ ~call.in.build_wheel)
                  /\ (call.in.build_wheel /\ call.in.build_sdist) =>
                        (~HasToken(line, " --wheel") /\ ~HasToken(line, " --sdist"))
                  /\ line[Len(line)] = " --outdir /tmp/dist"
                  /\ Cardinality({k \in 1..Len(line) : line[k] = " --outdir /tmp/dist"}) = 1

\* C22 witness: a script for a wheel and an sdist together, with backend settings
C22_Witness ==
    /\ call.op = "generate_build_script"
    /\ call.in.build_wheel /\ call.in.build_sdist
    /\ call.from_cli /\ Len(call.config_settings) = 2
    /\ ~HasToken(BuildLine(call.lines), " --wheel")
    /\ HasToken(BuildLine(call.lines), " --outdir /tmp/dist")

\* the texts that follow " --config-setting=" in the build command
SettingTexts(line) ==
    LET pieces == SplitOn(SubSeq(line, 1, Len(line) - 1), " --config-setting=")
    IN  Tail(pieces)

\* C23 (as claimed): every setting given with -C KEY=VALUE on the command line
\* appears in the build command as its own --config-setting=KEY=VALUE flag: there
\* are as many flags as settings given and each KEY=VALUE is reproduced unchanged.
C23_SettingsForwardedAsClaimed ==
    (call.op = "generate_build_script" /\ call.from_cli) =>
        LET texts == SettingTexts(BuildLine(call.lines))
        IN  /\ Len(texts) = Len(call.in.settings)
            /\ \A i \in 1..Len(call.in.settings) :
                  \E k \in 1..Len(texts) : texts[k] = call.in.settings[i]

RepairCommand == <<"        auditwheel repair \"$whl\" --plat auto -w /output/">>

FallbackCopy == <<"cp \"$whl\" /output/">>

DirectCopy == <<"cp /tmp/dist/* /output/ 2>/dev/null">>

SdistCopy == <<"cp /tmp/dist/*.tar.gz /output/ 2>/dev/null">>

ListOutput == <<"ls -la /output/">>

Ran(c) == \E k \in 1..Len(call.run.ran) : call.run.ran[k] = c

\* position of command c in the run, 0 if it did not run
RanAt(c) == IF Ran(c) THEN CHOOSE k \in 1..Len(call.run.ran) : call.run.ran[k] = c ELSE 0

\* the build command succeeded, and so did everything before it
BuildSucceeded ==
    /\ Ran(BuildLine(call.lines))
    /\ BuildLine(call.lines) \notin call.failing

\* C24: with repair requested and a wheel built, the script attempts the repair
\* of the staged wheel, and when the repair fails the original wheel is copied to
\* the output and the run goes on; otherwise no repair is attempted and the
\* staged artifacts are copied directly; the script has exactly one of the two
\* branches.
C24_RepairFallsBackToCopy ==
    call.op = "run_script" =>
        LET repairing == call.in.repair_wheel /\ call.in.build_wheel
            cmds == CommandsOf(call.lines)
        IN  /\ (RepairCommand \in cmds) <=> repairing
            /\ (DirectCopy \in cmds) <=> ~repairing
            /\ (FallbackCopy \in cmds) <=> repairing
            /\ (repairing /\ BuildSucceeded /\ call.staged) =>
                  /\ Ran(RepairCommand)
                  /\ (RepairCommand \in call.failing) =>
                        /\ RanAt(FallbackCopy) = RanAt(RepairCommand) + 1
                        /\ FallbackCopy \notin call.failing => Ran(ListOutput)
                  /\ (RepairCommand \notin call.failing) => ~Ran(FallbackCopy)
            /\ (~repairing /\ BuildSucceeded) => (Ran(DirectCopy) /\ ~Ran(RepairCommand))

\* C24 witness: the repair of the staged wheel failed, the wheel was copied
\* unrepaired and the run ended with status 0
C24_Witness ==
    /\ call.op = "run_script"
    /\ call.in.repair_wheel /\ call.in.build_wheel /\ call.staged
    /\ call.failing = {RepairCommand}
    /\ Ran(RepairCommand) /\ Ran(FallbackCopy) /\ Ran(ListOutput)
    /\ call.run.status = 0

\* line number of the first line of the script holding token t, 0 if none
LineOf(lines, t) ==
    IF \E i \in 1..Len(lines) : HasToken(lines[i], t)
    THEN CHOOSE i \in 1..Len(lines) :
            HasToken(lines[i], t) /\ \A j \in 1..(i - 1) : ~HasToken(lines[j], t)
    ELSE 0

\* a precedes b, when both are there
Before(a, b) == (a # 0 /\ b # 0) => a < b

\* C25 (as claimed): the steps of the script come in the order tool install,
\* requirement install, build, repair or direct copy, sdist copy, listing, and a
\* non-zero exit of any of these steps fails the whole run.  The repair tool,
\* whose failure the fallback copy is there to absorb, is not counted as a step
\* of its own.
C25_OrderedFailFastAsClaimed ==
    call.op = "run_script" =>
        LET l == call.lines
            tools == LineOf(l, " -m pip install --upgrade pip build auditwheel")
            reqs == LineOf(l, " -m pip install ")
            build == LineOf(l, " -m build")
            repair == LineOf(l, RepairCommand[1])
            copy == LineOf(l, DirectCopy[1])
            sdist == LineOf(l, SdistCopy[1])
            list == LineOf(l, ListOutput[1])
        IN  /\ tools # 0 /\ build # 0 /\ list # 0
            /\ (reqs # 0) <=> (call.in.build_requirements # <<>>)
            /\ (sdist # 0) <=> call.in.build_sdist
            /\ (repair # 0) # (copy # 0)
            /\ Before(tools, reqs) /\ Before(tools, build) /\ Before(reqs, build)
            /\ Before(build, repair) /\ Before(build, copy)
            /\ Before(repair, sdist) /\ Before(copy, sdist)
            /\ Before(sdist, list) /\ Before(repair, list) /\ Before(copy, list)
            /\ \A c \in call.failing \ {RepairCommand} : Ran(c) => call.run.status # 0

\* C29 (as claimed): the build command makes the backend produce a wheel only if
\* build_wheel is true and an sdist only if build_sdist is true, for every
\* combination of the two, both false included.
C29_OnlyRequestedKindsAsClaimed ==
    call.op = "generate_build_script" =>
        /\ "wheel" \in Produced(BuildLine(call.lines)) => call.in.build_wheel
        /\ "sdist" \in Produced(BuildLine(call.lines)) => call.in.build_sdist

-----------------------------------------------------------------------------
(* Further claims about DockerIsolation                                     *)

\* docker image inspect ... / docker pull ...
IsImageCommand(cmd) ==
    Len(cmd) >= 2 /\ cmd[1] = <<"docker">> /\ cmd[2] \in {<<"image">>, <<"pull">>}

\* a create_environment call that ends with the error for an unsupported version
CreateFailsOnVersion ==
    /\ dk'.calls = dk.calls + 1
    /\ dk'.last.op = "create_environment"
    /\ dk'.last.outcome.kind = "raise"
    /\ dk'.last.outcome.msg = "Unsupported Python version"

\* C26 (as claimed): a create_environment call that raises leaves no temporary
\* working directory behind and has started no image inspect or pull; the Python
\* version is validated before an image is ensured present or a directory is
\* created.  Only calls ending with the unsupported-version error are looked at.
C26_FailedCallLeavesNothingAsClaimed ==
    [][CreateFailsOnVersion =>
          /\ dk'.workdirs = dk.workdirs
          /\ \A i \in 1..Len(dk'.last.launched) : ~IsImageCommand(dk'.last.launched[i])]_vars

\* build_in_container returned for a request of at least one artifact kind
BuildReturned ==
    /\ ContainerExited
    /\ dk.last.outcome.kind = "return"
    /\ (dk.proc.build_wheel \/ dk.proc.build_sdist)

\* C27 (as claimed): the paths build_in_container returns are artifacts of the
\* requested kinds produced by this run: wheel_path is None when no wheel was
\* requested, sdist_path is None when no sdist was requested, and a file that lay
\* in the output directory before the run is never returned.  Requests for
\* neither kind are left aside.
C27_OnlyThisRunsArtifactsAsClaimed ==
    BuildReturned =>
        LET r == dk.last.outcome.value
        IN  /\ ~dk.proc.build_wheel => r.wheel_path = NoPath
            /\ ~dk.proc.build_sdist => r.sdist_path = NoPath
            /\ r.wheel_path # NoPath => r.wheel_path \in dk.last.produced
            /\ r.sdist_path # NoPath => r.sdist_path \in dk.last.produced

-----------------------------------------------------------------------------
(* A further claim about validate_wheel_path                                *)

\* C28 (as claimed): on a POSIX host every path validate_wheel_path accepts is
\* relative: no accepted path is absolute under the host's rules, a path
\* beginning with "//" included, and none has a ".." component.
C28_AcceptedPathsRelativeAsClaimed ==
    (wp.op = "validate_wheel_path" /\ wp.outcome.kind = "return") =>
        /\ ~IsAbsolutePosix(wp.path)
        /\ ~HasDotDotComponent(wp.path)

-----------------------------------------------------------------------------
(* Two AtomicFileWriter blocks on the same target, their steps interleaved  *)

InitAtomic2 == AtomInit({1, 2}) /\ CleanIdle /\ WheelIdle /\ ImgIdle /\ CallIdle /\ DockerIdle

SpecAtomic2 == InitAtomic2 /\ [][AtomNext]_vars

\* writer w is between __enter__ and the end of __exit__
HoldsTemp(w) == aw[w].pc \in {"body", "exit"}

\* C30: when two AtomicFileWriter blocks write the same target with their steps
\* interleaved, the writers never share a temporary file, and the target is
\* always absent, or holds what it held before, or holds the complete content of
\* one writer whose block ended normally; never a part, never a mixture.
C30_InterleavedWritersAtomic ==
    /\ \A v \in DOMAIN aw, w \in DOMAIN aw :
          (v # w /\ HoldsTemp(v) /\ HoldsTemp(w)) => aw[v].temp_path # aw[w].temp_path
    /\ \/ target \in {NoFile, Old}
       \/ \E w \in DOMAIN aw :
             /\ target = Complete(w)
             /\ aw[w].pc = "done"
             /\ aw[w].outcome.kind = "return"

\* C30 witness: writer 2 has replaced the target with its complete content while
\* writer 1, entered before, is half-way through writing its own temporary file
C30_Witness ==
    /\ DOMAIN aw = {1, 2}
    /\ target = Complete(2)
    /\ aw[2].pc = "done"
    /\ aw[1].pc = "body"
    /\ aw[1].before # Complete(2)
    /\ Len(temps[aw[1].temp_path]) = 1

====
